---------------------------- MODULE Spec2Model ----------------------------
(***************************************************************************)
(* A model of the statistical computation library of newApp1.0.            *)
(*                                                                         *)
(* The library is a set of pure functions over JavaScript numbers.  A      *)
(* number is modelled as a fixed-point integer with three decimals         *)
(* (1.645 is 1645), extended with the three IEEE values the code can       *)
(* produce and test for: Infinity, -Infinity and NaN.  Math.sqrt, Math.exp *)
(* and Math.log are computed on that representation, rounding to the       *)
(* nearest thousandth.  The finite numbers of the model lie within         *)
(* 2,000,000 of 0: a sum, product or quotient beyond them is infinite, as  *)
(* one beyond the largest double is in the code.  Counts (sample sizes,    *)
(* degrees of freedom, bin indexes) are plain integers.                    *)
(*                                                                         *)
(* The state is the last call made on the library and what it returned or  *)
(* threw: every action is one call of one exported function, with its      *)
(* arguments drawn from small sets.                                        *)
(*                                                                         *)
(* Two components that keep state are modelled beside the library: the     *)
(* provider of the saved analysis results, with the localStorage item it   *)
(* reads and writes, and the list of saved datasets of the statistics      *)
(* page.  Their handlers read the state of the last render, and what they  *)
(* set is applied by the next render.                                      *)
(***************************************************************************)
EXTENDS Integers, Sequences, FiniteSets, TLC

VARIABLES call, ret, provider, localStorage, page

vars == <<call, ret, provider, localStorage, page>>

\* the state of the components, which no call of the library touches
ui == <<provider, localStorage, page>>

-----------------------------------------------------------------------------
(* Bounds of the model *)

\* longest sample enumerated element by element
MaxLen == 3

\* the large samples hold 31 .. 30 + MaxExtra values
MaxExtra == 2

\* rounds of the sample-size refinement loop that are followed
MaxRounds == 12

-----------------------------------------------------------------------------
(* The number type *)

\* one unit of a number: three decimals
Scale == 10 * 10 * 10

PosInf == 2000000 * Scale
NegInf == -PosInf
NaN == PosInf + 1
\* the value of a missing optional argument or property
Undefined == PosInf + 2

IsFinite(a) == a # NaN /\ a # PosInf /\ a # NegInf

\* a whole number n as a number
Num(n) == n * Scale

Neg(a) == IF a = NaN THEN NaN ELSE -a

Abs(a) == IF a = NaN THEN NaN ELSE IF a < 0 THEN -a ELSE a

Sign(a) == IF a < 0 THEN -1 ELSE 1

\* a + b for a, b >= 0, infinite beyond the finite numbers
AddAbs(a, b) == IF a >= PosInf - b THEN PosInf ELSE a + b

Add(a, b) ==
  IF a = NaN \/ b = NaN THEN NaN
  ELSE IF IsFinite(a) /\ IsFinite(b)
    THEN IF a > 0 /\ b > 0 THEN AddAbs(a, b)
         ELSE IF a < 0 /\ b < 0 THEN -AddAbs(-a, -b)
         ELSE a + b
  ELSE IF IsFinite(a) THEN b
  ELSE IF IsFinite(b) THEN a
  ELSE IF a = b THEN a ELSE NaN

Sub(a, b) == Add(a, Neg(b))

\* |a| * |b| / Scale rounded to the nearest unit, for finite a and b
MulAbs(a, b) == (a \div Scale) * b + ((a % Scale) * b + Scale \div 2) \div Scale

\* the same product taken by parts, (ah + al)(bh + bl), infinite beyond the
\* finite numbers
MulWide(a, b) ==
  LET Parts(ah, al, bh, bl) ==
        IF ah > 0 /\ bh >= (PosInf \div Scale + ah - 1) \div ah THEN PosInf
        ELSE AddAbs(AddAbs(AddAbs(ah * bh * Scale, ah * bl), al * bh),
                    (al * bl + Scale \div 2) \div Scale)
  IN Parts(a \div Scale, a % Scale, b \div Scale, b % Scale)

Mul(a, b) ==
  IF a = NaN \/ b = NaN THEN NaN
  ELSE IF ~IsFinite(a) \/ ~IsFinite(b)
    THEN IF a = 0 \/ b = 0 THEN NaN
         ELSE IF Sign(a) = Sign(b) THEN PosInf ELSE NegInf
  ELSE IF a = 0 \/ b = 0 THEN 0
  ELSE Sign(a) * Sign(b) * MulWide(Abs(a), Abs(b))

\* |a| * Scale / |b| rounded to the nearest unit, for finite a and b > 0
RECURSIVE LongDiv(_, _, _, _)
\* long division, one decimal digit at a time: q the quotient so far, r the
\* remainder, and the last digit rounded to the nearest
LongDiv(q, r, b, digits) ==
  IF digits = 0 THEN q + (IF 2 * r >= b THEN 1 ELSE 0)
  ELSE LongDiv(q * 10 + (r * 10) \div b, (r * 10) % b, b, digits - 1)

DivAbs(a, b) == LongDiv(a \div b, a % b, b, 3)

\* the same quotient, infinite beyond the finite numbers; by a divisor above
\* 200,000, which long division does not take, it is taken on the divisor's
\* whole part
DivWide(a, b) ==
  IF b > 200000 * Scale THEN (a + (b \div Scale) \div 2) \div (b \div Scale)
  ELSE IF a \div b >= PosInf \div Scale THEN PosInf
  ELSE DivAbs(a, b)

Div(a, b) ==
  IF a = NaN \/ b = NaN THEN NaN
  ELSE IF ~IsFinite(a)
    THEN IF ~IsFinite(b) THEN NaN
         ELSE IF Sign(a) = Sign(b) THEN PosInf ELSE NegInf
  ELSE IF ~IsFinite(b) THEN 0
  ELSE IF b = 0
    THEN IF a = 0 THEN NaN ELSE IF a > 0 THEN PosInf ELSE NegInf
  ELSE IF a = 0 THEN 0
  ELSE Sign(a) * Sign(b) * DivWide(Abs(a), Abs(b))

\* comparisons: every comparison with NaN is false
Lt(a, b) == a # NaN /\ b # NaN /\ a < b
Le(a, b) == a # NaN /\ b # NaN /\ a <= b
Gt(a, b) == a # NaN /\ b # NaN /\ a > b
Ge(a, b) == a # NaN /\ b # NaN /\ a >= b
Eq(a, b) == a # NaN /\ b # NaN /\ a = b

\* Math.max, Math.min
Max(a, b) == IF a = NaN \/ b = NaN THEN NaN ELSE IF a >= b THEN a ELSE b
Min(a, b) == IF a = NaN \/ b = NaN THEN NaN ELSE IF a <= b THEN a ELSE b

\* Math.floor, Math.ceil
Floor(a) == IF ~IsFinite(a) THEN a ELSE (a \div Scale) * Scale
Ceil(a) == IF ~IsFinite(a) THEN a ELSE -(((-a) \div Scale) * Scale)

\* a || b on numbers: b when a is 0, NaN or undefined
OrElse(a, b) == IF a = 0 \/ a = NaN \/ a = Undefined THEN b ELSE a

RECURSIVE ISqrtBetween(_, _, _)
\* the largest r in lo..hi with r * r <= y
ISqrtBetween(y, lo, hi) ==
  IF lo >= hi THEN lo
  ELSE LET mid == (lo + hi + 1) \div 2
       IN IF mid * mid <= y THEN ISqrtBetween(y, mid, hi)
          ELSE ISqrtBetween(y, lo, mid - 1)

\* Math.sqrt: the root of a * Scale, taken to the unit up to 2147.483; above
\* it the root of a times Math.sqrt(1000)
Sqrt(a) ==
  IF a = NaN \/ a < 0 THEN NaN
  ELSE IF a = PosInf THEN PosInf
  ELSE IF a > 2147483 THEN (ISqrtBetween(a, 0, 46340) * 31623) \div Scale
  ELSE LET Rounded(y, r) == IF y - r * r > r THEN r + 1 ELSE r
       IN Rounded(a * Scale, ISqrtBetween(a * Scale, 0, 46340))

RECURSIVE ExpSeries(_, _)
\* 1 + f/k (1 + f/(k+1) (1 + ...)), the tail of the exponential series
ExpSeries(f, k) ==
  IF k > 9 THEN Scale
  ELSE Scale + (MulAbs(f, ExpSeries(f, k + 1)) + k \div 2) \div k

\* e^k for the whole numbers 0..14
ExpWhole(k) ==
  [i \in 0..14 |->
     CASE i = 0 -> 1000 [] i = 1 -> 2718 [] i = 2 -> 7389 [] i = 3 -> 20086
       [] i = 4 -> 54598 [] i = 5 -> 148413 [] i = 6 -> 403429
       [] i = 7 -> 1096633 [] i = 8 -> 2980958 [] i = 9 -> 8103084
       [] i = 10 -> 22026466 [] i = 11 -> 59874142 [] i = 12 -> 162754791
       [] i = 13 -> 442413392 [] i = 14 -> 1202604284][k]

\* e^a for finite a >= 0
ExpPos(a) ==
  IF a >= 14 * Scale THEN PosInf
  ELSE LET Product(w, s) == (w \div Scale) * s + ((w % Scale) * s + Scale \div 2) \div Scale
       IN Product(ExpWhole(a \div Scale), ExpSeries(a % Scale, 1))

\* Math.exp
Exp(a) ==
  IF a = NaN THEN NaN
  ELSE IF a = PosInf THEN PosInf
  ELSE IF a = NegInf THEN 0
  ELSE IF a >= 0 THEN ExpPos(a)
  ELSE IF a <= -14 * Scale THEN 0
  ELSE DivAbs(Scale, ExpPos(-a))

RECURSIVE LnReduced(_, _)
\* ln of a finite a > 0, with k the number of halvings already made
LnReduced(a, k) ==
  IF a >= 2 * Scale THEN LnReduced(a \div 2, k + 1)
  ELSE IF a < Scale THEN LnReduced(a * 2, k - 1)
  ELSE LET Series(y, y2) ==
             2 * y + (2 * MulAbs(y, y2)) \div 3
               + (2 * MulAbs(MulAbs(y, y2), y2)) \div 5
               + (2 * MulAbs(MulAbs(MulAbs(y, y2), y2), y2)) \div 7
           Odd(y) == Series(y, MulAbs(y, y))
       IN k * 693 + (k * 147) \div 1000 + Odd(DivAbs(a - Scale, a + Scale))

\* Math.log
Ln(a) ==
  IF a = NaN \/ a < 0 THEN NaN
  ELSE IF a = 0 THEN NegInf
  ELSE IF a = PosInf THEN PosInf
  ELSE LnReduced(a, 0)

\* Math.sqrt(2), 2 * Math.log(2)
Sqrt2 == Sqrt(Num(2))
TwoLn2 == 2 * Ln(Num(2))

-----------------------------------------------------------------------------
(* Samples *)

RECURSIVE SumRange(_, _, _)
\* F(lo) + ... + F(hi), added up by halves: the sums of the model are exact,
\* and the order they are taken in changes nothing
SumRange(F(_), lo, hi) ==
  IF lo > hi THEN 0
  ELSE IF lo = hi THEN F(lo)
  ELSE Add(SumRange(F, lo, (lo + hi) \div 2), SumRange(F, (lo + hi) \div 2 + 1, hi))

RECURSIVE MaxRange(_, _, _, _)
\* Math.max(least, F(lo), ..., F(hi))
MaxRange(F(_), lo, hi, least) ==
  IF lo > hi THEN least
  ELSE IF lo = hi THEN Max(least, F(lo))
  ELSE Max(MaxRange(F, lo, (lo + hi) \div 2, least),
           MaxRange(F, (lo + hi) \div 2 + 1, hi, least))

\* data.reduce((acc, val) => acc + val, 0)
SeqSum(s) ==
  LET At(i) == s[i]
  IN SumRange(At, 1, Len(s))

\* data.reduce((acc, val) => acc + f(val), 0)
SumOver(F(_), s) ==
  LET At(i) == F(s[i])
  IN SumRange(At, 1, Len(s))

\* the values a sample element takes
SampleValues == {Num(0), Num(1), Num(3)}

\* the samples enumerated element by element, the empty one included
SmallSamples == UNION {[1..n -> SampleValues] : n \in 0..MaxLen}

\* base repeated to the length n
Repeated(base, n) == [i \in 1..n |-> base[((i - 1) % Len(base)) + 1]]

\* samples of more than 30 values, where the large-sample branches are taken
LargeSamples ==
  {Repeated(base, 30 + k) : base \in {<<Num(1), Num(3)>>, <<Num(0), Num(1), Num(3)>>},
                            k \in 1..MaxExtra}

\* a sample of mean 0 and standard error 1
BalancedSample == <<Num(-2), Num(-2), Num(2), Num(2)>>

MeanSamples == SmallSamples \cup LargeSamples \cup {BalancedSample}

-----------------------------------------------------------------------------
(* Outcomes of a call *)

NoError == "none"
EmptyData == "Data array cannot be empty"

Returned(v) == [status |-> "ok", value |-> v]
Threw(e) == [status |-> "throw", error |-> e]

\* what a call yields: the error thrown when there is one, else the value
Outcome(e, v) == IF e # NoError THEN Threw(e) ELSE Returned(v)

-----------------------------------------------------------------------------
(* Descriptive statistics, utils/statistics *)

calculateMeanThrows(data) == IF Len(data) = 0 THEN EmptyData ELSE NoError

calculateMean(data) == Div(SeqSum(data), Num(Len(data)))

calculateVarianceThrows(data) == IF Len(data) = 0 THEN EmptyData ELSE NoError

calculateVariance(data) ==
  LET About(mean) ==
        LET Sq(val) == Mul(Sub(val, mean), Sub(val, mean))
        IN Div(SumOver(Sq, data), Num(Len(data)))
  IN About(calculateMean(data))

calculateStdThrows(data) == calculateVarianceThrows(data)

calculateStd(data) == Sqrt(calculateVariance(data))

calculateStdDevThrows(data) == IF Len(data) = 0 THEN EmptyData ELSE NoError

calculateStdDev(data) ==
  LET About(mean) ==
        LET Sq(val) == Mul(Sub(val, mean), Sub(val, mean))
        IN Sqrt(Div(SumOver(Sq, data), Num(Len(data) - 1)))
  IN About(calculateMean(data))

\* [...data].sort((a, b) => a - b): the caller's array is left alone
SortAsc(s) ==
  LET Below(v) == Cardinality({k \in 1..Len(s) : s[k] < v})
      UpTo(v) == Cardinality({k \in 1..Len(s) : s[k] <= v})
  IN [p \in 1..Len(s) |->
        CHOOSE v \in {s[k] : k \in 1..Len(s)} : Below(v) < p /\ p <= UpTo(v)]

calculateMedianThrows(data) == IF Len(data) = 0 THEN EmptyData ELSE NoError

\* sortedData[k] is the element at the 0-based index k
calculateMedian(data) ==
  LET Middle(sortedData, n) ==
        IF n % 2 = 0
          THEN Div(Add(sortedData[n \div 2], sortedData[n \div 2 + 1]), Num(2))
          ELSE sortedData[n \div 2 + 1]
  IN Middle(SortAsc(data), Len(data))

calculateModeThrows(data) == IF Len(data) = 0 THEN EmptyData ELSE NoError

\* the values of the highest frequency (the code returns them as an array)
calculateMode(data) ==
  LET freq(v) == Cardinality({i \in 1..Len(data) : data[i] = v})
      values == {data[i] : i \in 1..Len(data)}
  IN {v \in values : \A w \in values : freq(v) >= freq(w)}

calculateQuartilesThrows(data) == IF Len(data) = 0 THEN EmptyData ELSE NoError

calculateQuartiles(data) ==
  LET Range(q1, q3) == [q1 |-> q1, q3 |-> q3, iqr |-> Sub(q3, q1)]
      At(sortedData, n) ==
        Range(sortedData[(n * 25) \div 100 + 1], sortedData[(n * 75) \div 100 + 1])
  IN At(SortAsc(data), Len(data))

\* no statistics passed in
NoStats == [count |-> Undefined, mean |-> Undefined, std |-> Undefined]

calculateSkewnessThrows(data, basicStats) == IF Len(data) = 0 THEN EmptyData ELSE NoError

calculateSkewness(data, basicStats) ==
  LET Moment(n, mean, std) ==
        LET Cube(val) == Mul(Mul(Sub(val, mean), Sub(val, mean)), Sub(val, mean))
        IN IF std = 0 THEN 0
           ELSE Div(Div(SumOver(Cube, data), n), Mul(Mul(std, std), std))
  IN Moment(OrElse(basicStats.count, Num(Len(data))),
            OrElse(basicStats.mean, calculateMean(data)),
            calculateStd(data))

calculateKurtosisThrows(data, basicStats) == IF Len(data) = 0 THEN EmptyData ELSE NoError

calculateKurtosis(data, basicStats) ==
  LET Moment(n, mean, std) ==
        LET Square(d) == Mul(d, d)
            Fourth(val) == Square(Square(Sub(val, mean)))
        IN IF std = 0 THEN 0
           ELSE Sub(Div(Div(SumOver(Fourth, data), n), Mul(Mul(std, std), Mul(std, std))),
                    Num(3))
  IN Moment(OrElse(basicStats.count, Num(Len(data))),
            OrElse(basicStats.mean, calculateMean(data)),
            OrElse(basicStats.std, calculateStd(data)))

-----------------------------------------------------------------------------
(* Descriptive statistics, utils/goodnessOfFitAnalysis: no function throws *)

gofCalculateMean(data) ==
  IF Len(data) = 0 THEN 0 ELSE Div(SeqSum(data), Num(Len(data)))

gofCalculateStd(data) ==
  IF Len(data) <= 1 THEN 0
  ELSE LET About(mean) ==
             LET Sq(val) == Mul(Sub(val, mean), Sub(val, mean))
             IN Sqrt(Div(SumOver(Sq, data), Num(Len(data) - 1)))
       IN About(gofCalculateMean(data))

gofCalculateSkewness(data) ==
  IF Len(data) <= 2 THEN 0
  ELSE LET Moment(n, mean, std) ==
             LET Cubed(z) == Mul(Mul(z, z), z)
                 Cube(val) == Cubed(Div(Sub(val, mean), std))
             IN IF std = 0 THEN 0
                ELSE Div(Mul(SumOver(Cube, data), Num(n)), Num((n - 1) * (n - 2)))
       IN Moment(Len(data), gofCalculateMean(data), gofCalculateStd(data))

gofCalculateKurtosis(data) ==
  IF Len(data) <= 3 THEN Num(3)
  ELSE LET Moment(n, mean, std) ==
             LET Square(d) == Mul(d, d)
                 Fourth(val) == Square(Square(Div(Sub(val, mean), std)))
             IN IF std = 0 THEN Num(3)
                ELSE Sub(Div(Mul(SumOver(Fourth, data), Num(n * (n + 1))),
                             Num((n - 1) * (n - 2) * (n - 3))),
                         Div(Num(3 * (n - 1) * (n - 1)), Num((n - 2) * (n - 3))))
       IN Moment(Len(data), gofCalculateMean(data), gofCalculateStd(data))

-----------------------------------------------------------------------------
(* Critical values, utils/statistics *)

\* the t table: df :> the critical values at 0.90, 0.95 and 0.99
tTable ==
  1 :> <<6314, 12706, 63657>> @@ 2 :> <<2920, 4303, 9925>> @@ 3 :> <<2353, 3182, 5841>> @@
  4 :> <<2132, 2776, 4604>> @@ 5 :> <<2015, 2571, 4032>> @@ 6 :> <<1943, 2447, 3707>> @@
  7 :> <<1895, 2365, 3499>> @@ 8 :> <<1860, 2306, 3355>> @@ 9 :> <<1833, 2262, 3250>> @@
  10 :> <<1812, 2228, 3169>> @@ 11 :> <<1796, 2201, 3106>> @@ 12 :> <<1782, 2179, 3055>> @@
  13 :> <<1771, 2160, 3012>> @@ 14 :> <<1761, 2145, 2977>> @@ 15 :> <<1753, 2131, 2947>> @@
  16 :> <<1746, 2120, 2921>> @@ 17 :> <<1740, 2110, 2898>> @@ 18 :> <<1734, 2101, 2878>> @@
  19 :> <<1729, 2093, 2861>> @@ 20 :> <<1725, 2086, 2845>> @@ 21 :> <<1721, 2080, 2831>> @@
  22 :> <<1717, 2074, 2819>> @@ 23 :> <<1714, 2069, 2807>> @@ 24 :> <<1711, 2064, 2797>> @@
  25 :> <<1708, 2060, 2787>> @@ 30 :> <<1697, 2042, 2750>> @@ 40 :> <<1684, 2021, 2704>> @@
  50 :> <<1676, 2009, 2678>> @@ 60 :> <<1671, 2000, 2660>> @@ 100 :> <<1660, 1984, 2626>> @@
  1000 :> <<1646, 1962, 2581>> @@ 10000 :> <<1645, 1960, 2576>>

\* dfEntry[confidenceLevel]: undefined for a level that is no column
tColumn(dfEntry, confidenceLevel) ==
  CASE confidenceLevel = 900 -> dfEntry[1]
    [] confidenceLevel = 950 -> dfEntry[2]
    [] confidenceLevel = 990 -> dfEntry[3]
    [] OTHER -> Undefined

\* while (!(closestDf in tTable) && closestDf > 1) closestDf--
\* for a whole number df: the loop stops at the largest key not above df,
\* key 1 at the latest, and does not run at all when df <= 1
closestDfFrom(df) ==
  IF df > 1
    THEN CHOOSE k \in DOMAIN tTable :
           k <= df /\ \A j \in DOMAIN tTable : j <= df => j <= k
    ELSE df

getApproximateTCriticalValue(df, confidenceLevel) ==
  LET found == closestDfFrom(df)
      closestDf == IF found \notin DOMAIN tTable
                     THEN CHOOSE m \in DOMAIN tTable : \A k \in DOMAIN tTable : k <= m
                     ELSE found
      dfEntry == tTable[closestDf]
  IN OrElse(tColumn(dfEntry, confidenceLevel), OrElse(dfEntry[2], 1960))

inverseErrorFunction(x) ==
  LET a == 140
      Signed(sign, root) == IF sign = 1 THEN root ELSE Neg(root)
      Root(sign, logTerm) ==
        Signed(sign, Sqrt(Sub(Sub(Neg(logTerm), TwoLn2), Mul(a, logTerm))))
      Of(sign, absX) ==
        IF Ge(absX, Scale) THEN sign * PosInf
        ELSE Root(sign, Ln(Sub(Scale, Mul(absX, absX))))
  IN Of(IF Ge(x, 0) THEN 1 ELSE -1, Abs(x))

\* the z value of a confidence level: the switch every interval function repeats
zForLevel(confidenceLevel) ==
  CASE confidenceLevel = 900 -> 1645
    [] confidenceLevel = 950 -> 1960
    [] confidenceLevel = 990 -> 2576
    [] OTHER ->
         LET zApprox(alpha) ==
               Mul(Sqrt2, inverseErrorFunction(
                 Sub(Mul(Num(2), Sub(Scale, Div(alpha, Num(2)))), Scale)))
         IN Abs(zApprox(Sub(Scale, confidenceLevel)))

-----------------------------------------------------------------------------
(* Confidence interval of one mean *)

\* utils/statistics: the options carry no tail type, the interval has two sides
calculateConfidenceIntervalThrows(data, confidenceLevel, options) ==
  IF Len(data) = 0 THEN EmptyData ELSE NoError

calculateConfidenceInterval(data, confidenceLevel, options) ==
  LET n == Len(data)
      known == options.knownVariance /\ options.populationVariance # Undefined
      useT == ~options.knownVariance /\ (options.isNormal \/ n <= 30)
      method == IF options.knownVariance THEN "Z-distribution (known variance)"
                ELSE IF useT THEN "t distribution (normal, unknown variance)"
                ELSE "Z-distribution (non-normal, large sample, unknown variance)"
      Around(mean, criticalValue, marginOfError) ==
        [lower |-> Sub(mean, marginOfError),
         upper |-> Add(mean, marginOfError),
         marginOfError |-> marginOfError,
         method |-> method,
         criticalValue |-> criticalValue]
      From(mean, standardError, criticalValue) ==
        Around(mean, criticalValue, Mul(criticalValue, standardError))
  IN From(calculateMean(data),
          IF known
            THEN Div(Sqrt(options.populationVariance), Sqrt(Num(n)))
            ELSE Div(calculateStd(data), Sqrt(Num(n))),
          IF useT
            THEN getApproximateTCriticalValue(n - 1, confidenceLevel)
            ELSE zForLevel(confidenceLevel))

\* backup copy: the z value by confidence level and tail type
backupZForLevel(confidenceLevel, tailType) ==
  LET alpha == Sub(Scale, confidenceLevel)
      adjustedConfidenceLevel ==
        IF tailType = "two-tailed" THEN confidenceLevel ELSE Sub(Scale, alpha)
      two == tailType = "two-tailed"
      zApprox(alphaAdjusted) ==
        Mul(Sqrt2, inverseErrorFunction(
          Sub(Mul(Num(2), Sub(Scale, alphaAdjusted)), Scale)))
      Switch(level) ==
        CASE level = 900 -> IF two THEN 1645 ELSE 1282
          [] level = 950 -> IF two THEN 1960 ELSE 1645
          [] level = 975 -> 1960
          [] level = 990 -> IF two THEN 2576 ELSE 2326
          [] level = 995 -> 2576
          [] OTHER -> Abs(zApprox(IF two THEN Div(alpha, Num(2)) ELSE alpha))
  IN Switch(adjustedConfidenceLevel)

\* backup copy: the bounds by tail type
backupBounds(tailType, mean, marginOfError) ==
  CASE tailType = "left-tailed" ->
         [lower |-> NegInf, upper |-> Add(mean, marginOfError)]
    [] tailType = "right-tailed" ->
         [lower |-> Sub(mean, marginOfError), upper |-> PosInf]
    [] OTHER ->
         [lower |-> Sub(mean, marginOfError), upper |-> Add(mean, marginOfError)]

backupCalculateConfidenceIntervalThrows(data, confidenceLevel, options) ==
  IF Len(data) = 0 THEN EmptyData ELSE NoError

backupCalculateConfidenceInterval(data, confidenceLevel, options) ==
  LET tailType == options.tailType
      n == Len(data)
      known == options.knownVariance /\ options.populationVariance # Undefined
      useT == ~options.knownVariance /\ (options.isNormal \/ n <= 30)
      adjustedConfidenceLevel ==
        IF tailType = "two-tailed" THEN confidenceLevel
        ELSE Sub(Scale, Sub(Scale, confidenceLevel))
      method == IF options.knownVariance THEN "Z-distribution (known variance)"
                ELSE IF useT THEN "t distribution (normal, unknown variance)"
                ELSE "Z-distribution (non-normal, large sample, unknown variance)"
      Around(bounds, criticalValue, marginOfError) ==
        [lower |-> bounds.lower,
         upper |-> bounds.upper,
         marginOfError |-> marginOfError,
         method |-> method,
         criticalValue |-> criticalValue]
      Within(mean, criticalValue, marginOfError) ==
        Around(backupBounds(tailType, mean, marginOfError), criticalValue, marginOfError)
      From(mean, standardError, criticalValue) ==
        Within(mean, criticalValue, Mul(criticalValue, standardError))
  IN From(calculateMean(data),
          IF known
            THEN Div(Sqrt(options.populationVariance), Sqrt(Num(n)))
            ELSE Div(calculateStd(data), Sqrt(Num(n))),
          IF useT
            THEN getApproximateTCriticalValue(n - 1, adjustedConfidenceLevel)
            ELSE backupZForLevel(confidenceLevel, tailType))

-----------------------------------------------------------------------------
(* Error function and distribution functions, utils/statistics *)

\* the coefficients a1..a5 and p, to three decimals
erf(x) ==
  LET a1 == 255
      a2 == -284
      a3 == 1421
      a4 == -1453
      a5 == 1061
      p == 328
      Signed(sign, y) == IF sign = 1 THEN y ELSE Neg(y)
      Poly(t) == Mul(Add(Mul(Add(Mul(Add(Mul(Add(Mul(a5, t), a4), t), a3), t), a2), t), a1), t)
      Of(sign, absX) ==
        Signed(sign, Sub(Scale, Mul(Poly(Div(Scale, Add(Scale, Mul(p, absX)))),
                                    Exp(Neg(Mul(absX, absX))))))
  IN Of(IF Ge(x, 0) THEN 1 ELSE -1, Abs(x))

normalCDF(x) == Mul(500, Add(Scale, erf(Div(x, Sqrt2))))

tCDF(x, df) ==
  IF df >= 30 THEN normalCDF(x)
  ELSE LET correction == Add(Sub(Div(Num(1), Num(4 * df)),
                                 Div(Num(7), Num(96 * df * df))),
                             Div(Num(127), Num(9216 * df * df * df)))
           Approx(zValue, spread) ==
             IF Lt(x, 0)
               THEN Add(Sub(Scale, zValue), Mul(spread, Sub(zValue, 500)))
               ELSE Add(zValue, Mul(spread, Sub(500, zValue)))
           Of(absX) ==
             Approx(normalCDF(absX), Mul(correction, Add(Mul(absX, absX), Scale)))
       IN Min(Scale, Max(0, Of(Abs(x))))

calculateTTestPValue(tValue, df, tail) ==
  LET ForTail(cdf) ==
        CASE tail = "two" -> Mul(Num(2), Min(cdf, Sub(Scale, cdf)))
          [] tail = "left" -> cdf
          [] OTHER -> Sub(Scale, cdf)
  IN ForTail(tCDF(tValue, df))

-----------------------------------------------------------------------------
(* Hypothesis tests, utils/statistics *)

\* a rejection decision that spares a statistic equal to the critical value
rejectedByStrictly(testType, statistic, criticalValue) ==
  CASE testType = "left" -> Lt(statistic, criticalValue)
    [] testType = "right" -> Gt(statistic, criticalValue)
    [] OTHER -> Gt(Abs(statistic), criticalValue)

\* the rejection decision of both tests
rejectedBy(testType, statistic, criticalValue) ==
  CASE testType = "left" -> Le(statistic, criticalValue)
    [] testType = "right" -> Ge(statistic, criticalValue)
    [] OTHER -> Ge(Abs(statistic), criticalValue)

\* an interval with two finite sides whatever the test type
testIntervalTwoSided(testType, mean, critical, standardError) ==
  LET Around(margin) == [lower |-> Sub(mean, margin), upper |-> Add(mean, margin)]
  IN Around(Mul(critical, standardError))

\* the interval both tests return with the decision
testInterval(testType, mean, critical, standardError) ==
  LET Around(margin) ==
        CASE testType = "two" -> [lower |-> Sub(mean, margin), upper |-> Add(mean, margin)]
          [] testType = "left" -> [lower |-> NegInf, upper |-> Add(mean, margin)]
          [] testType = "right" -> [lower |-> Sub(mean, margin), upper |-> PosInf]
  IN Around(Mul(critical, standardError))

performZTestThrows(data, mu0, sigma, alpha, testType) ==
  IF Len(data) = 0 THEN "data array cannot be empty" ELSE NoError

performZTest(data, mu0, sigma, alpha, testType) ==
  LET zFor(tailArea) ==
        Mul(Sqrt2, inverseErrorFunction(Sub(Mul(Num(2), Sub(Scale, tailArea)), Scale)))
      Decide(mean, standardError, zValue, zCritical, criticalValue) ==
        [testType |-> "Z-test",
         mean |-> mean,
         zValue |-> zValue,
         pValue |-> CASE testType = "left" -> normalCDF(zValue)
                      [] testType = "right" -> Sub(Scale, normalCDF(zValue))
                      [] OTHER -> Mul(Num(2), Sub(Scale, normalCDF(Abs(zValue)))),
         criticalValue |-> criticalValue,
         rejected |-> rejectedBy(testType, zValue, criticalValue),
         confidenceInterval |-> testInterval(testType, mean, zCritical, standardError)]
      Standardise(mean, standardError) ==
        Decide(mean, standardError, Div(Sub(mean, mu0), standardError),
               zFor(Div(alpha, Num(2))),
               CASE testType = "left" -> Neg(zFor(alpha))
                 [] testType = "right" -> zFor(alpha)
                 [] OTHER -> zFor(Div(alpha, Num(2))))
  IN Standardise(calculateMean(data), Div(sigma, Sqrt(Num(Len(data)))))

performTTestThrows(data, mu0, alpha, testType) ==
  IF Len(data) = 0 THEN "data array cannot be empty" ELSE NoError

performTTest(data, mu0, alpha, testType) ==
  LET Decide(mean, std, df, standardError, tValue, tCritical, criticalValue) ==
        [testType |-> "t-test",
         mean |-> mean,
         std |-> std,
         tValue |-> tValue,
         df |-> df,
         pValue |-> calculateTTestPValue(tValue, df, testType),
         criticalValue |-> criticalValue,
         rejected |-> rejectedBy(testType, tValue, criticalValue),
         confidenceInterval |-> testInterval(testType, mean, tCritical, standardError)]
      oneSided(df) == getApproximateTCriticalValue(df, Sub(Scale, alpha))
      twoSided(df) == getApproximateTCriticalValue(df, Sub(Scale, Div(alpha, Num(2))))
      Standardise(mean, std, df, standardError) ==
        Decide(mean, std, df, standardError, Div(Sub(mean, mu0), standardError),
               twoSided(df),
               CASE testType = "left" -> Neg(oneSided(df))
                 [] testType = "right" -> oneSided(df)
                 [] OTHER -> twoSided(df))
      Measure(n, mean, std) == Standardise(mean, std, n - 1, Div(std, Sqrt(Num(n))))
  IN Measure(Len(data), calculateMean(data), calculateStd(data))

-----------------------------------------------------------------------------
(* Proportion intervals, utils/statistics *)

TrialsError == "Total number of trials must be greater than 0"
SuccessesError == "Number of successes must be between 0 and total number of trials"
LevelError == "Confidence level must be between 0 and 1"

calculateProportionConfidenceIntervalThrows(successes, trials, confidenceLevel, method) ==
  IF Le(trials, 0) THEN TrialsError
  ELSE IF Lt(successes, 0) \/ Gt(successes, trials) THEN SuccessesError
  ELSE IF Le(confidenceLevel, 0) \/ Ge(confidenceLevel, Scale) THEN LevelError
  ELSE NoError

calculateProportionConfidenceInterval(successes, trials, confidenceLevel, method) ==
  LET Clamped(proportion, criticalValue, lower, upper, methodName) ==
        [lower |-> lower,
         upper |-> upper,
         marginOfError |-> Div(Sub(upper, lower), Num(2)),
         method |-> methodName,
         criticalValue |-> criticalValue,
         proportion |-> proportion]
      Between(proportion, criticalValue, centre, halfWidth, methodName) ==
        Clamped(proportion, criticalValue,
                Max(0, Sub(centre, halfWidth)), Min(Scale, Add(centre, halfWidth)),
                methodName)
      Wilson(proportion, n, z, zSquared) ==
        LET pTilde == Div(Add(successes, Div(zSquared, Num(2))), Add(n, zSquared))
            denominator == Add(n, zSquared)
            numerator ==
              Mul(z, Sqrt(Div(Add(Mul(Mul(proportion, Sub(Scale, proportion)), n),
                                  Div(zSquared, Num(4))), n)))
        IN Between(proportion, z, pTilde, Div(numerator, denominator),
                   "Wilson score interval")
      Wald(proportion, criticalValue) ==
        LET standardError == Sqrt(Div(Mul(proportion, Sub(Scale, proportion)), trials))
            marginOfError == Mul(criticalValue, standardError)
        IN Between(proportion, criticalValue, proportion, marginOfError,
                   "Wald interval (normal approximation)")
      Interval(proportion, criticalValue) ==
        IF method = "wilson"
          THEN Wilson(proportion, trials, criticalValue, Mul(criticalValue, criticalValue))
          ELSE Wald(proportion, criticalValue)
  IN Interval(Div(successes, trials), zForLevel(confidenceLevel))

calculateTwoProportionConfidenceIntervalThrows(successes1, trials1, successes2, trials2, confidenceLevel, method) ==
  IF Le(trials1, 0) \/ Le(trials2, 0) THEN TrialsError
  ELSE IF Lt(successes1, 0) \/ Gt(successes1, trials1)
            \/ Lt(successes2, 0) \/ Gt(successes2, trials2) THEN SuccessesError
  ELSE IF Le(confidenceLevel, 0) \/ Ge(confidenceLevel, Scale) THEN LevelError
  ELSE NoError

calculateTwoProportionConfidenceInterval(successes1, trials1, successes2, trials2, confidenceLevel, method) ==
  LET Spread(q1, q2) == Sqrt(Add(Div(Mul(q1, Sub(Scale, q1)), trials1),
                                 Div(Mul(q2, Sub(Scale, q2)), trials2)))
      Clamped(proportion1, proportion2, criticalValue, lower, upper, methodName) ==
        [lower |-> lower,
         upper |-> upper,
         marginOfError |-> Div(Sub(upper, lower), Num(2)),
         method |-> methodName,
         criticalValue |-> criticalValue,
         proportionDiff |-> Sub(proportion1, proportion2),
         proportion1 |-> proportion1,
         proportion2 |-> proportion2]
      Between(proportion1, proportion2, criticalValue, centre, halfWidth, methodName) ==
        Clamped(proportion1, proportion2, criticalValue,
                Max(-Scale, Sub(centre, halfWidth)), Min(Scale, Add(centre, halfWidth)),
                methodName)
      Continuity(proportion1, proportion2, criticalValue, p1, p2) ==
        Between(proportion1, proportion2, criticalValue,
                Sub(p1, p2), Mul(criticalValue, Spread(p1, p2)),
                "Continuity correction method")
      Wald(proportion1, proportion2, criticalValue) ==
        Between(proportion1, proportion2, criticalValue,
                Sub(proportion1, proportion2),
                Mul(criticalValue, Spread(proportion1, proportion2)),
                "Wald interval (normal approximation)")
      Interval(proportion1, proportion2, criticalValue) ==
        IF method = "continuity"
          THEN Continuity(proportion1, proportion2, criticalValue,
                          Div(Add(successes1, 500), trials1),
                          Div(Add(successes2, 500), trials2))
          ELSE Wald(proportion1, proportion2, criticalValue)
  IN Interval(Div(successes1, trials1), Div(successes2, trials2),
              zForLevel(confidenceLevel))

-----------------------------------------------------------------------------
(* Sample sizes, utils/statistics *)

MarginError == "margin of error must be greater than 0"
NoStdError == "an estimated standard deviation is required"
NoProportionError == "an estimated proportion is required"
ProportionError == "the estimated proportion must be between 0 and 1"

\* in place of a value: the call never returns
Hangs == PosInf + 3

\* (critical * std / marginOfError)^2
sizeFor(critical, std, marginOfError) ==
  LET Squared(r) == Mul(r, r) IN Squared(Div(Mul(critical, std), marginOfError))

RECURSIVE refineWithT(_, _, _, _, _, _, _)
\* the loop that recomputes n from the t value of n - 1 degrees of freedom until
\* two successive values differ by at most 0.5.  Each n is computed from the n
\* before it alone: the loop never ends once an n comes back that it has
\* `seen`, and neither does the lookup of the t value for df = Infinity; Hangs
\* also when the loop has not ended after `left` rounds
refineWithT(n, previousN, seen, confidenceLevel, std, marginOfError, left) ==
  IF ~Gt(Abs(Sub(n, previousN)), 500) THEN n
  ELSE IF n \in seen \/ left = 0 \/ n = PosInf THEN Hangs
  ELSE LET Again(df) ==
             refineWithT(sizeFor(getApproximateTCriticalValue(df, confidenceLevel),
                                 std, marginOfError),
                         n, seen \cup {n}, confidenceLevel, std, marginOfError, left - 1)
           AtLeastOne(d) == IF d >= 1 THEN d ELSE 1
       IN Again(AtLeastOne(Floor(n) \div Scale - 1))

calculateSampleSizeForMeanThrows(confidenceLevel, marginOfError, options) ==
  IF Le(marginOfError, 0) THEN MarginError
  ELSE IF options.populationStd = Undefined /\ options.estimatedStd = Undefined
    THEN NoStdError
  ELSE NoError

calculateSampleSizeForMean(confidenceLevel, marginOfError, options) ==
  LET Rounded(n) == IF n = Hangs THEN Hangs ELSE Ceil(n)
      Refined(std, first) ==
        IF options.useTDistribution /\ std = options.estimatedStd
          THEN refineWithT(first, 0, {}, confidenceLevel, std, marginOfError, MaxRounds)
          ELSE first
      From(std) ==
        Rounded(Refined(std, sizeFor(zForLevel(confidenceLevel), std, marginOfError)))
  IN From(IF options.populationStd # Undefined
            THEN options.populationStd ELSE options.estimatedStd)

calculateSampleSizeForProportionThrows(confidenceLevel, marginOfError, options) ==
  IF Le(marginOfError, 0) THEN MarginError
  ELSE IF options.estimatedProportion = Undefined /\ ~options.useConservativeEstimate
    THEN NoProportionError
  ELSE LET p == IF options.useConservativeEstimate THEN 500
                ELSE options.estimatedProportion
       IN IF Lt(p, 0) \/ Gt(p, Scale) THEN ProportionError ELSE NoError

calculateSampleSizeForProportion(confidenceLevel, marginOfError, options) ==
  LET From(p, criticalValue) ==
        Ceil(Div(Mul(Mul(Mul(criticalValue, criticalValue), p), Sub(Scale, p)),
                 Mul(marginOfError, marginOfError)))
  IN From(IF options.useConservativeEstimate THEN 500 ELSE options.estimatedProportion,
          zForLevel(confidenceLevel))

\* what a call that may not end yields
OutcomeOrHang(e, v) ==
  IF e # NoError THEN Threw(e)
  ELSE IF v = Hangs THEN [status |-> "hang"]
  ELSE Returned(v)

-----------------------------------------------------------------------------
(* Parameter estimates, utils/statistics *)

\* the error for a family that is not known; the code appends the family's
\* name to the message
UnsupportedDistribution(distType) == "Unsupported distribution type: " \o distType

\* the families calculateMLE and calculateMoM know
EstimatedFamilies == {"normal", "uniform", "exponential", "poisson", "gamma", "beta"}

\* no statistics passed in to an estimator
NoBasicStats == [mean |-> Undefined, variance |-> Undefined, std |-> Undefined]

\* !a on a number or a missing value
Falsy(a) == a = 0 \/ a = NaN \/ a = Undefined

RECURSIVE MinOfRange(_, _, _)
\* the least of s[lo] to s[hi]
MinOfRange(s, lo, hi) ==
  IF lo > hi THEN PosInf
  ELSE IF lo = hi THEN s[lo]
  ELSE Min(MinOfRange(s, lo, (lo + hi) \div 2), MinOfRange(s, (lo + hi) \div 2 + 1, hi))

\* Math.min(...data)
MinOf(s) == MinOfRange(s, 1, Len(s))

RECURSIVE MaxOfRange(_, _, _)
\* the greatest of s[lo] to s[hi]
MaxOfRange(s, lo, hi) ==
  IF lo > hi THEN NegInf
  ELSE IF lo = hi THEN s[lo]
  ELSE Max(MaxOfRange(s, lo, (lo + hi) \div 2), MaxOfRange(s, (lo + hi) \div 2 + 1, hi))

\* Math.max(...data)
MaxOf(s) == MaxOfRange(s, 1, Len(s))

\* basicStats?.variance || (basicStats?.std ? basicStats.std * basicStats.std : undefined)
passedVariance(basicStats) ==
  OrElse(basicStats.variance,
         IF Falsy(basicStats.std) THEN Undefined ELSE Mul(basicStats.std, basicStats.std))

\* the mean the one-moment estimators work from: the one passed in, else the
\* mean of the data
meanFor(data, mean) ==
  IF Falsy(mean) THEN Div(SeqSum(data), Num(Len(data))) ELSE mean

\* the mean and variance the two-moment estimators work from: both are
\* computed from the data as soon as one of them was not passed in
momentsFor(data, mean, variance) ==
  IF Falsy(mean) \/ Falsy(variance)
    THEN LET About(m) ==
               LET Sq(val) == Mul(Sub(val, m), Sub(val, m))
               IN [mean |-> m, variance |-> Div(SumOver(Sq, data), Num(Len(data)))]
         IN About(Div(SeqSum(data), Num(Len(data))))
    ELSE [mean |-> mean, variance |-> variance]

normalEstimate(m) == [mean |-> m.mean, std |-> Sqrt(m.variance)]

\* shape = Math.max(0.001, mean^2 / variance), scale = variance / mean
gammaEstimate(m) ==
  [shape |-> Max(1, Div(Mul(m.mean, m.mean), m.variance)),
   scale |-> Div(m.variance, m.mean)]

betaEstimate(m) ==
  LET With(s) == [alpha |-> Mul(m.mean, s), beta |-> Mul(Sub(Scale, m.mean), s)]
  IN With(Sub(Div(Mul(m.mean, Sub(Scale, m.mean)), m.variance), Scale))

\* a = mean - range / 2, b = mean + range / 2 with range = sqrt(12 variance)
uniformMomentEstimate(m) ==
  LET With(half) == [a |-> Sub(m.mean, half), b |-> Add(m.mean, half)]
  IN With(Div(Sqrt(Mul(Num(12), m.variance)), Num(2)))

calculateMLEThrows(data, distType, basicStats) ==
  IF distType \in EstimatedFamilies THEN NoError ELSE UnsupportedDistribution(distType)

calculateMLE(data, distType, basicStats) ==
  CASE distType = "normal" ->
         normalEstimate(momentsFor(data, basicStats.mean, passedVariance(basicStats)))
    [] distType = "uniform" -> [a |-> MinOf(data), b |-> MaxOf(data)]
    [] distType = "exponential" -> [lambda |-> Div(Scale, meanFor(data, basicStats.mean))]
    [] distType = "poisson" -> [lambda |-> meanFor(data, basicStats.mean)]
    [] distType = "gamma" ->
         gammaEstimate(momentsFor(data, basicStats.mean, passedVariance(basicStats)))
    [] distType = "beta" ->
         betaEstimate(momentsFor(data, basicStats.mean, passedVariance(basicStats)))

calculateMoMThrows(data, distType, basicStats) ==
  IF distType \in EstimatedFamilies THEN NoError ELSE UnsupportedDistribution(distType)

calculateMoM(data, distType, basicStats) ==
  CASE distType = "normal" ->
         normalEstimate(momentsFor(data, basicStats.mean, passedVariance(basicStats)))
    [] distType = "uniform" ->
         uniformMomentEstimate(momentsFor(data, basicStats.mean, passedVariance(basicStats)))
    [] distType = "exponential" -> [lambda |-> Div(Scale, meanFor(data, basicStats.mean))]
    [] distType = "poisson" -> [lambda |-> meanFor(data, basicStats.mean)]
    [] distType = "gamma" ->
         gammaEstimate(momentsFor(data, basicStats.mean, passedVariance(basicStats)))
    [] distType = "beta" ->
         betaEstimate(momentsFor(data, basicStats.mean, passedVariance(basicStats)))

-----------------------------------------------------------------------------
(* The gamma function and the chi-square distribution function,            *)
(* utils/statistics                                                        *)

\* Math.PI, Math.sqrt(Math.PI)
Pi == 3142
SqrtPi == 1772

\* Math.sin(Math.PI * z) at a multiple z of 1/2.  At a whole z other than 0
\* the code gets a value of the order of 1e-16 instead of 0: the model has
\* no such magnitude, and no call takes the gamma function there
sinPi(z) ==
  IF (z \div 500) % 2 = 0 THEN 0
  ELSE IF (z \div 500) % 4 = 1 THEN Scale ELSE -Scale

\* Math.pow(x, s) for x >= 0
Pow(x, s) ==
  IF s = 0 THEN Scale
  ELSE IF x = NaN \/ s = NaN THEN NaN
  ELSE Exp(Mul(s, Ln(x)))

RECURSIVE gammaFunction(_)
\* The Lanczos approximation gives the gamma function to ten decimals and
\* more.  The tests take it at multiples of 1/2 only, where its value to
\* three decimals follows from Gamma(1/2) = sqrt(pi), Gamma(1) = 1 and
\* Gamma(z) = (z - 1) Gamma(z - 1); below 1/2 the code reflects
gammaFunction(z) ==
  IF z < 500 THEN Div(Pi, Mul(sinPi(z), gammaFunction(Scale - z)))
  ELSE IF z = 500 THEN SqrtPi
  ELSE IF z = Scale THEN Scale
  ELSE Mul(z - Scale, gammaFunction(z - Scale))

\* the number of rounds the loops of the incomplete gamma functions are
\* limited to
MaxIterations == 1000

RECURSIVE seriesTerms(_, _, _, _, _)
\* the loop of seriesGamma: term > 1e-15 is term > 0 to three decimals
seriesTerms(s, x, term, sum, n) ==
  IF Gt(term, 0) /\ n < MaxIterations
    THEN LET Step(t) == seriesTerms(s, x, t, Add(sum, t), n + 1)
         IN Step(Mul(term, Div(x, Add(s, Num(n)))))
    ELSE sum

seriesGamma(s, x) ==
  Mul(seriesTerms(s, x, Div(Scale, s), Div(Scale, s), 1),
      Exp(Sub(Add(Neg(x), Mul(s, Ln(x))), gammaFunction(s))))

\* Math.abs(delta - 1) < 1e-15, where delta = d * c is known to the precision
\* of d, a thousandth: delta is 1 as far as the model tells
Settled(delta, c) == Le(Abs(Sub(delta, Scale)), Abs(c) \div (2 * Scale) + 1)

RECURSIVE lentzRounds(_, _, _, _, _, _)
\* the loop of continuedGammaQ.  A d or c below 1e-30 is 0 to three
\* decimals, and its reciprocal exceeds every number of the model; the
\* product of c and its own reciprocal is 1; the last delta, within 1e-15 of
\* 1, leaves h as it is; once h is NaN it stays NaN, and the remaining rounds
\* are not followed
lentzRounds(s, i, b, c, d, h) ==
  IF i >= MaxIterations \/ h = NaN THEN h
  ELSE LET Stepped(an, b2) ==
             LET Inverted(c2, d2) ==
                   LET Scaled(delta) ==
                         IF Settled(delta, c2) THEN h
                         ELSE lentzRounds(s, i + 1, b2, c2, d2, Mul(h, delta))
                   IN Scaled(IF d2 = Div(Scale, c2) THEN Scale ELSE Mul(d2, c2))
             IN Inverted(Add(b2, Div(an, c)), Div(Scale, Add(Mul(an, d), b2)))
       IN Stepped(Neg(Mul(Num(i), Sub(Num(i), s))), Add(b, Num(2)))

continuedGammaQ(s, x) ==
  LET From(b) ==
        Mul(Exp(Sub(Add(Neg(x), Mul(s, Ln(x))), gammaFunction(s))),
            lentzRounds(s, 1, b, PosInf, Div(Scale, b), Div(Scale, b)))
  IN From(Sub(Add(x, Scale), s))

regularizedGammaP(s, x) ==
  IF Le(x, 0) THEN 0
  ELSE IF Lt(x, Add(s, Scale)) THEN seriesGamma(s, x)
  ELSE Sub(Scale, continuedGammaQ(s, x))

\* df is a count
chiSquareCDF(x, df) ==
  IF Le(x, 0) THEN 0
  ELSE IF df <= 0 THEN 0
  ELSE regularizedGammaP(Div(Num(df), Num(2)), Div(x, Num(2)))

-----------------------------------------------------------------------------
(* Goodness-of-fit tests, utils/statistics *)

\* The parameters of a test are the properties mean, std, lambda, a and b
\* of an object; a property the caller left out is undefined
NoParameters ==
  [mean |-> Undefined, std |-> Undefined, lambda |-> Undefined,
   a |-> Undefined, b |-> Undefined]

\* Object.keys(parameters).length
parameterCount(parameters) ==
  Cardinality({k \in DOMAIN parameters : parameters[k] # Undefined})

\* The families whose distribution functions are modelled.  The tests of
\* utils/statistics also take poisson, gamma and binomial: no call passes
\* them
ModelledFamilies == {"normal", "exponential", "uniform"}
OtherFamilies == {"poisson", "gamma", "binomial"}

\* Number.EPSILON is 2^-52.  x + Number.EPSILON is a double above x only for
\* -2 <= x < 2, and x - Number.EPSILON one below x only for -2 < x <= 2:
\* elsewhere the whole numbers the samples hold have no bit left for it and
\* the result is x again.  Where it is not x, it differs from x by less than
\* the model's unit, and only the comparisons it is used in see it
aboveWithEpsilon(x) == IsFinite(x) /\ -2 * Scale <= x /\ x < 2 * Scale
belowWithEpsilon(x) == IsFinite(x) /\ -2 * Scale < x /\ x <= 2 * Scale

\* sortedData.filter(val => val <= x).length / n
empiricalCDF(sortedData, x) ==
  Div(Num(Cardinality({j \in DOMAIN sortedData : Le(sortedData[j], x)})),
      Num(Len(sortedData)))

\* empiricalCDF(x - Number.EPSILON)
empiricalCDFBelow(sortedData, x) ==
  IF belowWithEpsilon(x)
    THEN Div(Num(Cardinality({j \in DOMAIN sortedData : Lt(sortedData[j], x)})),
             Num(Len(sortedData)))
    ELSE empiricalCDF(sortedData, x)

\* the distribution function the Kolmogorov-Smirnov test compares with: a
\* parameter left out has a fixed default
theoreticalCDF(distributionType, parameters, x) ==
  CASE distributionType = "normal" ->
         normalCDF(Div(Sub(x, OrElse(parameters.mean, 0)), OrElse(parameters.std, Scale)))
    [] distributionType = "exponential" ->
         IF Lt(x, 0) THEN 0
         ELSE Sub(Scale, Exp(Mul(Neg(OrElse(parameters.lambda, Scale)), x)))
    [] distributionType = "uniform" ->
         LET Between(a, b) ==
               IF Lt(x, a) THEN 0
               ELSE IF Gt(x, b) THEN Scale
               ELSE Div(Sub(x, a), Sub(b, a))
         IN Between(OrElse(parameters.a, 0), OrElse(parameters.b, Scale))

\* the loop over the sorted sample: the greatest of 0 and of the two
\* differences at each position
ksMaxDiff(sortedData, distributionType, parameters) ==
  LET Diff(i) ==
        LET Step(x, f1) ==
              Max(Abs(Sub(f1, empiricalCDF(sortedData, x))),
                  Abs(Sub(f1, empiricalCDFBelow(sortedData, x))))
        IN Step(sortedData[i], theoreticalCDF(distributionType, parameters, sortedData[i]))
  IN MaxRange(Diff, 1, Len(sortedData), 0)

\* the terms of the p-value series the code adds up
KSTerms == 100

\* the series: a term below 1e-15 ends it; it is 0 to three decimals, and
\* so is every term after it
ksSeries(lambda) ==
  LET Term(k) ==
        LET Signed(term) == IF k % 2 = 1 THEN term ELSE Neg(term)
        IN Signed(Exp(Mul(Mul(Num(-2 * k * k), lambda), lambda)))
  IN SumRange(Term, 1, KSTerms)

calculateKolmogorovSmirnovTestThrows(data, distributionType, parameters) ==
  IF distributionType \in ModelledFamilies \cup OtherFamilies THEN NoError
  ELSE UnsupportedDistribution(distributionType)

calculateKolmogorovSmirnovTest(data, distributionType, parameters) ==
  LET With(maxDiff, en) ==
        [statistic |-> maxDiff,
         pValue |-> Max(0, Min(Scale, Mul(Num(2),
                      ksSeries(Mul(Add(Add(en, 120), Div(110, en)), maxDiff))))),
         criticalValue |-> Div(1360, en)]
  IN With(ksMaxDiff(SortAsc(data), distributionType, parameters),
          Sqrt(Num(Len(data))))

\* the bin count the chi-square test takes when none is passed
DefaultBins == 10

\* the least expected frequency of a bin the chi-square test keeps, and the
\* least number of such bins for the others to be left out
MinExpected == 5
MinValidBins == 5

\* the expected frequency of the bin from binMin to binMax
expectedFrequency(data, distributionType, parameters, numBins, min, max, binMin, binMax) ==
  CASE distributionType = "normal" ->
         LET From(mean, std) ==
               Mul(Num(Len(data)), Sub(normalCDF(Div(Sub(binMax, mean), std)),
                                       normalCDF(Div(Sub(binMin, mean), std))))
         IN From(OrElse(parameters.mean, calculateMean(data)),
                 OrElse(parameters.std, calculateStd(data)))
    [] distributionType = "exponential" ->
         LET From(lambda) ==
               Mul(Num(Len(data)), Sub(Sub(Scale, Exp(Mul(Neg(lambda), binMax))),
                                       Sub(Scale, Exp(Mul(Neg(lambda), binMin)))))
         IN From(OrElse(parameters.lambda, Div(Scale, calculateMean(data))))
    [] distributionType = "uniform" ->
         LET From(a, b) ==
               Mul(Num(Len(data)),
                   Max(0, Sub(Min(Scale, Div(Sub(binMax, a), Sub(b, a))),
                              Max(0, Div(Sub(binMin, a), Sub(b, a))))))
         IN From(OrElse(parameters.a, min), OrElse(parameters.b, max))
    [] distributionType \notin ModelledFamilies \cup OtherFamilies ->
         Div(Num(Len(data)), Num(numBins))

\* the bins: the last one ends at max + Number.EPSILON, which holds the
\* values equal to max only where it is above max
chiSquareBins(data, distributionType, parameters, numBins, min, max) ==
  LET Cut(binWidth) ==
        LET binAt(i, binMin, binMax) ==
              [min |-> binMin, max |-> binMax,
               observed |->
                 Num(Cardinality({j \in DOMAIN data :
                       /\ Ge(data[j], binMin)
                       /\ \/ Lt(data[j], binMax)
                          \/ i = numBins - 1 /\ data[j] = max /\ aboveWithEpsilon(max)})),
               expected |-> expectedFrequency(data, distributionType, parameters, numBins,
                                              min, max, binMin, binMax)]
        IN [k \in 1..numBins |->
              binAt(k - 1, Add(min, Mul(Num(k - 1), binWidth)),
                    IF k = numBins THEN max
                    ELSE Add(Add(min, Mul(Num(k - 1), binWidth)), binWidth))]
  IN Cut(Div(Sub(max, min), Num(numBins)))

\* bins.filter(bin => bin.expected >= 5), taken in place of the bins when it
\* holds five bins or more
keptBins(bins) ==
  LET Valid(bin) == Ge(bin.expected, Num(MinExpected))
      Chosen(validBins) == IF Len(validBins) < MinValidBins THEN bins ELSE validBins
  IN Chosen(SelectSeq(bins, Valid))

chiSquareStatistic(mergedBins) ==
  LET Term(bin) ==
        LET Squared(diff) == Div(Mul(diff, diff), bin.expected)
        IN IF Gt(bin.expected, 0) THEN Squared(Sub(bin.observed, bin.expected)) ELSE 0
  IN SumOver(Term, mergedBins)

\* calculateMean throws on an empty sample, where the normal and exponential
\* families estimate a parameter that was not passed
calculateChiSquareTestThrows(data, distributionType, parameters, numBins) ==
  IF /\ Len(data) = 0
     /\ \/ distributionType = "normal" /\ Falsy(parameters.mean)
        \/ distributionType = "exponential" /\ Falsy(parameters.lambda)
    THEN EmptyData
    ELSE NoError

\* the bins before the low ones are left out, for a sample of one value or
\* more
binsBeforeMerging(data, distributionType, parameters, numBins) ==
  LET Sorted(sortedData) ==
        chiSquareBins(data, distributionType, parameters,
                      IF numBins = Undefined THEN DefaultBins ELSE numBins,
                      sortedData[1], sortedData[Len(sortedData)])
  IN Sorted(SortAsc(data))

calculateChiSquareTest(data, distributionType, parameters, numBins) ==
  LET Tested(mergedBins) ==
        LET Of(statistic, df) ==
              [statistic |-> statistic,
               pValue |-> Max(Sub(Scale, chiSquareCDF(statistic, df)), 0),
               degreesOfFreedom |-> df,
               bins |-> mergedBins]
        IN Of(chiSquareStatistic(mergedBins),
              Len(mergedBins) - 1 - parameterCount(parameters))
  IN Tested(keptBins(binsBeforeMerging(data, distributionType, parameters, numBins)))

NotNormalError == "Anderson-Darling test is primarily designed for normal distributions"

\* Math.log(1e-15), to three decimals
LnTiny == -34539

\* Math.log(Math.max(1e-15, Math.min(1 - 1e-15, y))): where y is 0 to three
\* decimals the clamp keeps the logarithm finite
logClamped(y) ==
  IF y = NaN THEN NaN
  ELSE IF y <= 0 THEN LnTiny
  ELSE Ln(Min(y, Scale))

\* the sum of (2i - 1)(log(yi) + log(1 - yn)) over the distribution
\* function's values at the sorted, standardised sample
andersonDarlingSum(cdfs) ==
  LET Term(i) ==
        Mul(Num(2 * i - 1),
            Add(logClamped(cdfs[i]), logClamped(Sub(Scale, cdfs[Len(cdfs) + 1 - i]))))
  IN SumRange(Term, 1, Len(cdfs))

\* the approximation of the p-value in its four ranges; c0 + c1 A + c2 A^2
andersonDarlingPValue(adjustedStat) ==
  LET Poly(c0, c1, c2) ==
        Add(Add(c0, Mul(c1, adjustedStat)), Mul(Mul(c2, adjustedStat), adjustedStat))
  IN IF Le(adjustedStat, 200) THEN Sub(Scale, Exp(Poly(-13436, 101140, -223730)))
     ELSE IF Le(adjustedStat, 340) THEN Sub(Scale, Exp(Poly(-8318, 42796, -59938)))
     ELSE IF Le(adjustedStat, 600) THEN Exp(Poly(918, -4279, -1380))
     ELSE Exp(Poly(1294, -5709, 19))

calculateAndersonDarlingTestThrows(data, distributionType, parameters) ==
  IF distributionType # "normal" THEN NotNormalError
  ELSE IF Len(data) = 0 /\ (Falsy(parameters.mean) \/ Falsy(parameters.std)) THEN EmptyData
  ELSE NoError

calculateAndersonDarlingTest(data, distributionType, parameters) ==
  LET n == Len(data)
      Adjusted(adjustedStat) ==
        [statistic |-> adjustedStat,
         pValue |-> Max(0, Min(Scale, andersonDarlingPValue(adjustedStat)))]
      Summed(sum) ==
        Adjusted(Mul(Sub(Neg(Num(n)), Div(sum, Num(n))),
                     Add(Add(Scale, Div(750, Num(n))), Div(2250, Num(n * n)))))
      Standardised(sortedData, mean, std) ==
        Summed(andersonDarlingSum(
                 [i \in 1..n |-> normalCDF(Div(Sub(sortedData[i], mean), std))]))
  IN Standardised(SortAsc(data),
                  OrElse(parameters.mean, calculateMean(data)),
                  OrElse(parameters.std, calculateStd(data)))

calculateJarqueBeraTestThrows(data) == IF Len(data) = 0 THEN EmptyData ELSE NoError

\* calculateKurtosis returns the excess kurtosis, and 3 is taken from it again
calculateJarqueBeraTest(data) ==
  LET n == Num(Len(data))
      Tested(jbStat) ==
        [statistic |-> jbStat,
         pValue |-> Max(Min(Sub(Scale, chiSquareCDF(jbStat, 2)), Scale), 0)]
      Shaped(skewness, excessKurtosis) ==
        Tested(Mul(Div(n, Num(6)),
                   Add(Mul(skewness, skewness),
                       Div(Mul(excessKurtosis, excessKurtosis), Num(4)))))
      Measured(mean, std) ==
        Shaped(calculateSkewness(data, [count |-> n, mean |-> mean, std |-> Undefined]),
               Sub(calculateKurtosis(data, [count |-> n, mean |-> mean, std |-> std]),
                   Num(3)))
  IN Measured(calculateMean(data), calculateStd(data))

KolmogorovSmirnov == "kolmogorov-smirnov"
ChiSquare == "chi-square"
AndersonDarling == "anderson-darling"
JarqueBera == "jarque-bera"

UnsupportedTest(testType) == "Unsupported test type: " \o testType

\* the error executeGoFTest throws in place of the error e of a test
gofFailed(e) == "GoF test failed: " \o e

\* a mistaken policy: the Kolmogorov-Smirnov test decided by its p-value
isRejectByPValue(testType, result, significanceLevel) ==
  IF testType = ChiSquare
    THEN Gt(result.statistic, result.criticalValue)
    ELSE Lt(result.pValue, significanceLevel)

\* the decision executeGoFTest attaches to the result of a test
isReject(testType, result, significanceLevel) ==
  IF testType \in {KolmogorovSmirnov, ChiSquare}
    THEN Gt(result.statistic, result.criticalValue)
    ELSE Lt(result.pValue, significanceLevel)

\* the error of the test that is run, if any
goFTestThrows(data, testType, distributionType, parameters, options) ==
  CASE testType = KolmogorovSmirnov ->
         calculateKolmogorovSmirnovTestThrows(data, distributionType, parameters)
    [] testType = ChiSquare ->
         calculateChiSquareTestThrows(data, distributionType, parameters, options.numBins)
    [] testType = AndersonDarling ->
         calculateAndersonDarlingTestThrows(data, distributionType, parameters)
    [] testType = JarqueBera -> calculateJarqueBeraTestThrows(data)
    [] OTHER -> UnsupportedTest(testType)

executeGoFTestThrows(data, testType, distributionType, significanceLevel, parameters, options) ==
  LET Caught(e) == IF e = NoError THEN NoError ELSE gofFailed(e)
  IN Caught(goFTestThrows(data, testType, distributionType, parameters, options))

executeGoFTest(data, testType, distributionType, significanceLevel, parameters, options) ==
  LET Decided(result, family) ==
        result @@ [testType |-> testType, distributionType |-> family,
                   significanceLevel |-> significanceLevel,
                   isReject |-> isReject(testType, result, significanceLevel),
                   sampleSize |-> Len(data)]
      WithCritical(result) ==
        Decided(result @@ [criticalValue |->
                             chiSquareCDF(Sub(Scale, significanceLevel),
                                          result.degreesOfFreedom)],
                distributionType)
  IN CASE testType = KolmogorovSmirnov ->
            Decided(calculateKolmogorovSmirnovTest(data, distributionType, parameters),
                    distributionType)
       [] testType = ChiSquare ->
            WithCritical(calculateChiSquareTest(data, distributionType, parameters,
                                                options.numBins))
       [] testType = AndersonDarling ->
            Decided(calculateAndersonDarlingTest(data, distributionType, parameters),
                    distributionType)
       [] testType = JarqueBera -> Decided(calculateJarqueBeraTest(data), "normal")

-----------------------------------------------------------------------------
(* Goodness-of-fit tests, utils/goodnessOfFitAnalysis *)

gofErf(x) ==
  LET a1 == 255
      a2 == -284
      a3 == 1421
      a4 == -1453
      a5 == 1061
      p == 328
      Signed(sign, y) == IF sign = 1 THEN y ELSE Neg(y)
      Poly(t) == Mul(Add(Mul(Add(Mul(Add(Mul(Add(Mul(a5, t), a4), t), a3), t), a2), t), a1), t)
      Of(sign, absX) ==
        Signed(sign, Sub(Scale, Mul(Poly(Div(Scale, Add(Scale, Mul(p, absX)))),
                                    Exp(Neg(Mul(absX, absX))))))
  IN Of(IF Ge(x, 0) THEN 1 ELSE -1, Abs(x))

gofNormalCDF(x) == Mul(500, Add(Scale, gofErf(Div(x, Sqrt2))))

RECURSIVE gofGammaFunction(_)
\* as gammaFunction of utils/statistics: at the multiples of 1/2
gofGammaFunction(z) ==
  IF z < 500 THEN Div(Pi, Mul(sinPi(z), gofGammaFunction(Scale - z)))
  ELSE IF z = 500 THEN SqrtPi
  ELSE IF z = Scale THEN Scale
  ELSE Mul(z - Scale, gofGammaFunction(z - Scale))

RECURSIVE gammaLowerTerms(_, _, _, _, _)
\* the series of gammaLower.  eps * sum, with eps = 1e-10, is 0 to three
\* decimals but for its sign: the loop goes on while the term is not 0 where
\* the sum is positive, and to its limit where the sum is negative, the
\* terms that are 0 to three decimals adding nothing; an infinite sum ends it
gammaLowerTerms(s, x, term, sum, n) ==
  IF sum = NaN \/ term = NaN \/ ~IsFinite(sum) \/ term = 0 \/ n > MaxIterations THEN sum
  ELSE LET Step(t) == gammaLowerTerms(s, x, t, Add(sum, t), n + 1)
       IN Step(Mul(term, Div(x, Add(s, Num(n)))))

RECURSIVE gammaUpperRounds(_, _, _, _, _, _)
\* the continued fraction of gammaUpper, from round n: a d below 1e-10 is 0
\* to three decimals, and its reciprocal 1e10.  Once h is 0 to three
\* decimals with a, b, c and d above 0 it stays there, every later delta
\* lying between 0 and 1, and the remaining rounds are not followed
gammaUpperRounds(n, a, b, c, d, h) ==
  LET Stepped(a2, b2) ==
        LET Inverted(c2, d2) ==
              LET Scaled(delta, h2) ==
                    IF delta = Scale \/ n + 1 > MaxIterations \/ h2 = NaN THEN h2
                    ELSE IF h2 = 0 /\ a2 > 0 /\ b2 > 0 /\ Ge(c2, 0) /\ Ge(d2, 0) THEN 0
                    ELSE gammaUpperRounds(n + 1, a2, b2, c2, d2, h2)
              IN Scaled(Mul(c2, d2), Mul(h, Mul(c2, d2)))
        IN Inverted(Div(Scale, Add(b2, Mul(a2, c))), Div(Scale, Add(b2, Mul(a2, d))))
  IN Stepped(Add(a, Num(n)), Add(b, Num(2)))

RECURSIVE gammaLower(_, _)
RECURSIVE gammaUpper(_, _)

gammaLower(s, x) ==
  IF Le(x, 0) THEN 0
  ELSE IF Ge(x, Add(s, Scale)) THEN Sub(gofGammaFunction(s), gammaUpper(s, x))
  ELSE Mul(Mul(Pow(x, s), Exp(Neg(x))),
           gammaLowerTerms(s, x, Div(Scale, s), Div(Scale, s), 1))

gammaUpper(s, x) ==
  IF Le(x, 0) THEN gofGammaFunction(s)
  ELSE IF Lt(x, Add(s, Scale)) THEN Sub(gofGammaFunction(s), gammaLower(s, x))
  ELSE LET From(b) ==
             Mul(Mul(Pow(x, s), Exp(Neg(x))),
                 gammaUpperRounds(1, Sub(Scale, s), b, 0, Div(Scale, b), Div(Scale, b)))
       IN From(Add(Add(x, Sub(Scale, s)), Scale))

gofChiSquareCDF(x, df) ==
  IF Le(x, 0) THEN 0
  ELSE IF x = PosInf THEN Scale
  ELSE Sub(Scale, Div(gammaLower(Div(Num(df), Num(2)), Div(x, Num(2))),
                      gofGammaFunction(Div(Num(df), Num(2)))))

\* the distribution function the test compares with: a parameter left out
\* is estimated from the data
gofTheoreticalCDF(data, distributionType, parameters, x) ==
  CASE distributionType = "normal" ->
         gofNormalCDF(Div(Sub(x, OrElse(parameters.mean, gofCalculateMean(data))),
                          OrElse(parameters.std, gofCalculateStd(data))))
    [] distributionType = "uniform" ->
         LET Between(a, b) ==
               IF Lt(x, a) THEN 0
               ELSE IF Gt(x, b) THEN Scale
               ELSE Div(Sub(x, a), Sub(b, a))
         IN Between(OrElse(parameters.a, MinOf(data)), OrElse(parameters.b, MaxOf(data)))
    [] distributionType = "exponential" ->
         IF Lt(x, 0) THEN 0
         ELSE Sub(Scale, Exp(Mul(Neg(OrElse(parameters.lambda,
                                            Div(Scale, gofCalculateMean(data)))), x)))

\* theoCDF(x), a call of a number, which throws a TypeError
NotAFunction == "theoCDF is not a function"

\* At the second value of the sorted sample the loop calls theoCDF, which is
\* a number
gofCalculateKolmogorovSmirnovTestThrows(data, distributionType, parameters) ==
  IF distributionType \notin ModelledFamilies THEN UnsupportedDistribution(distributionType)
  ELSE IF Len(data) > 1 THEN NotAFunction
  ELSE NoError

\* for a sample of one value: d2 is d1
gofCalculateKolmogorovSmirnovTest(data, distributionType, parameters) ==
  LET n == Len(data)
      With(maxD) ==
        [statistic |-> maxD,
         criticalValue |-> Div(1360, Sqrt(Num(n))),
         pValue |-> Min(Mul(Num(2), Exp(Mul(Mul(Num(-2 * n), maxD), maxD))), Scale)]
      First(sortedData) ==
        With(Max(0, Abs(Sub(empiricalCDF(sortedData, sortedData[1]),
                            gofTheoreticalCDF(data, distributionType, parameters,
                                              sortedData[1])))))
  IN First(SortAsc(data))

\* the expected frequencies of the bins
gofExpectedFrequencies(data, distributionType, parameters, bins, min, max, binWidth) ==
  CASE distributionType = "normal" ->
         LET From(mean, std) ==
               [i \in DOMAIN bins |->
                  Mul(Num(Len(data)),
                      Sub(gofNormalCDF(Div(Sub(bins[i].end, mean), std)),
                          gofNormalCDF(Div(Sub(bins[i].start, mean), std))))]
         IN From(OrElse(parameters.mean, gofCalculateMean(data)),
                 OrElse(parameters.std, gofCalculateStd(data)))
    [] distributionType = "uniform" ->
         LET From(binProbability) ==
               [i \in DOMAIN bins |-> Mul(Num(Len(data)), binProbability)]
         IN From(Div(binWidth, Sub(OrElse(parameters.b, max), OrElse(parameters.a, min))))
    [] distributionType = "exponential" ->
         LET From(lambda) ==
               [i \in DOMAIN bins |->
                  Mul(Num(Len(data)),
                      Sub(Sub(Scale, Exp(Mul(Neg(lambda), Max(bins[i].end, 0)))),
                          Sub(Scale, Exp(Mul(Neg(lambda), Max(bins[i].start, 0))))))]
         IN From(OrElse(parameters.lambda, Div(Scale, gofCalculateMean(data))))

\* whether the bin at position i takes the value: the last bin includes its end
gofBinHolds(bins, i, value) ==
  /\ Ge(value, bins[i].start)
  /\ IF i = Len(bins) THEN Le(value, bins[i].end) ELSE Lt(value, bins[i].end)

\* each value is counted in the first bin that takes it
gofObservedFrequencies(data, bins) ==
  [i \in DOMAIN bins |->
     Num(Cardinality({j \in DOMAIN data :
           /\ gofBinHolds(bins, i, data[j])
           /\ \A k \in 1..(i - 1) : ~gofBinHolds(bins, k, data[j])}))]

\* array[k] += v, at a position that may be one past the end of the array
addedAt(array, k, v) ==
  IF k > Len(array) THEN Append(array, NaN)
  ELSE [array EXCEPT ![k] = Add(@, v)]

\* array.splice(k, 1)
removedAt(array, k) == SubSeq(array, 1, k - 1) \o SubSeq(array, k + 1, Len(array))

RECURSIVE mergeSmallBins(_, _, _, _)
\* the loop merging the bins of expected frequency below 5, from position i
mergeSmallBins(i, expected, observed, bins) ==
  IF i > Len(expected)
    THEN [expectedFrequencies |-> expected, observedFrequencies |-> observed,
          bins |-> bins]
  ELSE IF ~Lt(expected[i], Num(MinExpected))
    THEN mergeSmallBins(i + 1, expected, observed, bins)
  ELSE IF i = 1
    THEN mergeSmallBins(1, removedAt(addedAt(expected, 2, expected[1]), 1),
                        removedAt(addedAt(observed, 2, observed[1]), 1),
                        removedAt(bins, 1))
  ELSE mergeSmallBins(i, removedAt(addedAt(expected, i - 1, expected[i]), i),
                      removedAt(addedAt(observed, i - 1, observed[i]), i),
                      removedAt([bins EXCEPT ![i - 1].end = bins[i].end], i))

gofChiSquareStatistic(expected, observed) ==
  LET Squared(diff, e) == Div(Mul(diff, diff), e)
      Term(i) == IF Gt(expected[i], 0) THEN Squared(Sub(observed[i], expected[i]), expected[i])
                 ELSE 0
  IN SumOver(Term, [i \in DOMAIN expected |-> i])

gofCalculateChiSquareTestThrows(data, distributionType, parameters, numBins) ==
  IF distributionType \in ModelledFamilies THEN NoError
  ELSE UnsupportedDistribution(distributionType)

\* the bins with their frequencies, before the merging
gofBinsBeforeMerging(data, distributionType, parameters, numBins) ==
  LET Binned(bins, min, max, binWidth) ==
        [expectedFrequencies |->
           gofExpectedFrequencies(data, distributionType, parameters, bins, min, max, binWidth),
         observedFrequencies |-> gofObservedFrequencies(data, bins),
         bins |-> bins]
      Cut(count, min, max, binWidth) ==
        Binned([i \in 1..count |-> [start |-> Add(min, Mul(Num(i - 1), binWidth)),
                                    end |-> Add(min, Mul(Num(i), binWidth))]],
               min, max, binWidth)
      Ranged(count, min, max) == Cut(count, min, max, Div(Sub(max, min), Num(count)))
  IN Ranged(IF numBins = Undefined THEN DefaultBins ELSE numBins, MinOf(data), MaxOf(data))

gofCalculateChiSquareTest(data, distributionType, parameters, numBins) ==
  LET Merged(m) ==
        [statistic |-> gofChiSquareStatistic(m.expectedFrequencies, m.observedFrequencies),
         degreesOfFreedom |->
           Len(m.expectedFrequencies) - 1 - (IF distributionType = "normal" THEN 2 ELSE 1),
         observedFrequencies |-> m.observedFrequencies,
         expectedFrequencies |-> m.expectedFrequencies,
         bins |-> m.bins]
      From(b) ==
        Merged(mergeSmallBins(1, b.expectedFrequencies, b.observedFrequencies, b.bins))
  IN From(gofBinsBeforeMerging(data, distributionType, parameters, numBins))

GofNotNormalError == "Anderson-Darling test is currently only supported for normal distribution"

\* the sum of (2i - 1)(log(F(zi)) + log(1 - F(z(n+1-i))))
gofAndersonDarlingSum(cdfs) ==
  LET Term(i) ==
        Mul(Num(2 * i - 1), Add(Ln(cdfs[i]), Ln(Sub(Scale, cdfs[Len(cdfs) + 1 - i]))))
  IN SumRange(Term, 1, Len(cdfs))

gofAndersonDarlingPValue(adAdjusted) ==
  LET Poly(c0, c1, c2) ==
        Add(Add(c0, Mul(c1, adAdjusted)), Mul(Mul(c2, adAdjusted), adAdjusted))
  IN IF Lt(adAdjusted, 200) THEN Sub(Scale, Exp(Poly(-13436, 101140, -223730)))
     ELSE IF Lt(adAdjusted, 340) THEN Sub(Scale, Exp(Poly(-8318, 42796, -59938)))
     ELSE IF Lt(adAdjusted, 600) THEN Exp(Poly(918, -4279, -1380))
     ELSE Exp(Poly(1294, -5709, 19))

gofCalculateAndersonDarlingTestThrows(data, distributionType, parameters) ==
  IF distributionType # "normal" THEN GofNotNormalError ELSE NoError

gofCalculateAndersonDarlingTest(data, distributionType, parameters) ==
  LET n == Len(data)
      Adjusted(adAdjusted) ==
        [statistic |-> adAdjusted,
         pValue |-> Min(Max(gofAndersonDarlingPValue(adAdjusted), 0), Scale)]
      Summed(sum) ==
        Adjusted(Mul(Sub(Div(Neg(sum), Num(n)), Num(n)),
                     Sub(Add(Scale, Div(Num(4), Num(n))), Div(Num(25), Num(n * n)))))
      Standardised(sortedData, mean, std) ==
        Summed(gofAndersonDarlingSum(
                 [i \in 1..n |-> gofNormalCDF(Div(Sub(sortedData[i], mean), std))]))
  IN Standardised(SortAsc(data),
                  OrElse(parameters.mean, gofCalculateMean(data)),
                  OrElse(parameters.std, gofCalculateStd(data)))

gofCalculateJarqueBeraTest(data) ==
  LET Tested(jbStatistic, skewness, kurtosis) ==
        [statistic |-> jbStatistic,
         pValue |-> Min(Max(Sub(Scale, gofChiSquareCDF(jbStatistic, 2)), 0), Scale),
         skewness |-> skewness,
         kurtosis |-> kurtosis]
      Shaped(skewness, kurtosis) ==
        Tested(Mul(Div(Num(Len(data)), Num(6)),
                   Add(Mul(skewness, skewness),
                       Mul(Mul(250, Sub(kurtosis, Num(3))), Sub(kurtosis, Num(3))))),
               skewness, kurtosis)
  IN Shaped(gofCalculateSkewness(data), gofCalculateKurtosis(data))

\* the decision executeGoFTest attaches to the result of a test
gofIsReject(testType, result, significanceLevel) ==
  IF testType \in {KolmogorovSmirnov, ChiSquare}
    THEN Gt(result.statistic, result.criticalValue)
    ELSE Lt(result.pValue, significanceLevel)

\* the error of the test that is run, if any
gofGoFTestThrows(data, testType, distributionType, parameters, options) ==
  CASE testType = KolmogorovSmirnov ->
         gofCalculateKolmogorovSmirnovTestThrows(data, distributionType, parameters)
    [] testType = ChiSquare ->
         gofCalculateChiSquareTestThrows(data, distributionType, parameters, options.numBins)
    [] testType = AndersonDarling ->
         gofCalculateAndersonDarlingTestThrows(data, distributionType, parameters)
    [] testType = JarqueBera -> NoError
    [] OTHER -> UnsupportedTest(testType)

gofExecuteGoFTestThrows(data, testType, distributionType, significanceLevel, parameters, options) ==
  LET Caught(e) == IF e = NoError THEN NoError ELSE gofFailed(e)
  IN Caught(gofGoFTestThrows(data, testType, distributionType, parameters, options))

gofExecuteGoFTest(data, testType, distributionType, significanceLevel, parameters, options) ==
  LET Decided(result, family) ==
        result @@ [testType |-> testType, distributionType |-> family,
                   significanceLevel |-> significanceLevel,
                   isReject |-> gofIsReject(testType, result, significanceLevel),
                   sampleSize |-> Len(data)]
      WithCritical(result) ==
        Decided(result @@ [criticalValue |->
                             gofChiSquareCDF(Sub(Scale, significanceLevel),
                                             result.degreesOfFreedom)],
                distributionType)
  IN CASE testType = KolmogorovSmirnov ->
            Decided(gofCalculateKolmogorovSmirnovTest(data, distributionType, parameters),
                    distributionType)
       [] testType = ChiSquare ->
            WithCritical(gofCalculateChiSquareTest(data, distributionType, parameters,
                                                   options.numBins))
       [] testType = AndersonDarling ->
            Decided(gofCalculateAndersonDarlingTest(data, distributionType, parameters),
                    distributionType)
       [] testType = JarqueBera -> Decided(gofCalculateJarqueBeraTest(data), "normal")

-----------------------------------------------------------------------------
(* Power analysis, utils/statistics *)

\* the power of a test of the given critical value when the mean is delta
\* from the hypothesized one
powerAt(critical, delta, se, testType) ==
  CASE testType = "two" ->
         Add(normalCDF(Add(Neg(critical), Div(Abs(delta), se))),
             normalCDF(Sub(Neg(critical), Div(Abs(delta), se))))
    [] testType = "right" -> normalCDF(Add(Neg(critical), Div(delta, se)))
    [] OTHER -> normalCDF(Sub(Neg(critical), Div(delta, se)))

\* the critical value the power functions of utils/statistics take:
\* -normalCDF(alpha / 2) for a two-sided test, -normalCDF(alpha) otherwise
powerCritical(alpha, testType) ==
  IF testType = "two" THEN Neg(normalCDF(Div(alpha, Num(2))))
  ELSE Neg(normalCDF(alpha))

calculateZTestPower(mu1, mu0, sigma, n, alpha, testType) ==
  powerAt(powerCritical(alpha, testType), Sub(mu1, mu0), Div(sigma, Sqrt(n)), testType)

calculateTTestPower(mu1, mu0, sigma, n, alpha, testType) ==
  powerAt(powerCritical(alpha, testType), Sub(mu1, mu0), Div(sigma, Sqrt(n)), testType)

\* startMu = mu0 - 3 * sigma, endMu = mu0 + 3 * sigma, step = sigma / 10
\* unless passed
powerRange(mu0, sigma, startMu, endMu, step) ==
  [startMu |-> IF startMu = Undefined THEN Sub(mu0, Mul(Num(3), sigma)) ELSE startMu,
   endMu |-> IF endMu = Undefined THEN Add(mu0, Mul(Num(3), sigma)) ELSE endMu,
   step |-> IF step = Undefined THEN Div(sigma, Num(10)) ELSE step]

\* for (let mu = startMu; mu <= endMu; mu += step) does not end: the loop is
\* entered and mu does not grow
powerLoopHangs(range) ==
  Le(range.startMu, range.endMu) /\ Le(range.step, 0)

\* the number of rounds of the loop when it ends: none when it is not
\* entered, one when the step is NaN, and, the sums of the model being
\* exact, as many as there are multiples of the step up to endMu - startMu
powerLoopRounds(range) ==
  IF ~Le(range.startMu, range.endMu) THEN 0
  ELSE IF range.step = NaN THEN 1
  ELSE (range.endMu - range.startMu) \div range.step + 1

\* the points the loop pushes, mu advancing by the step from startMu
powerPoints(range, mu0, sigma, n, alpha, testType, hypothesisTestType) ==
  [k \in 1..powerLoopRounds(range) |->
     LET At(mu) ==
           [mu |-> mu,
            power |-> IF hypothesisTestType = "z"
                        THEN calculateZTestPower(mu, mu0, sigma, n, alpha, testType)
                        ELSE calculateTTestPower(mu, mu0, sigma, n, alpha, testType)]
     IN At(range.startMu + (k - 1) * range.step)]

generatePowerFunctionDataHangs(mu0, sigma, n, alpha, testType, hypothesisTestType, startMu, endMu, step) ==
  powerLoopHangs(powerRange(mu0, sigma, startMu, endMu, step))

generatePowerFunctionData(mu0, sigma, n, alpha, testType, hypothesisTestType, startMu, endMu, step) ==
  powerPoints(powerRange(mu0, sigma, startMu, endMu, step),
              mu0, sigma, n, alpha, testType, hypothesisTestType)

calculateSampleSizeForPower(mu1, mu0, sigma, alpha, beta, testType) ==
  LET From(delta, zAlpha, zBeta) ==
        LET Squared(r) == Mul(r, r)
        IN Ceil(Squared(Div(Mul(sigma, Add(zAlpha, zBeta)), delta)))
  IN From(Abs(Sub(mu1, mu0)), powerCritical(alpha, testType), Neg(normalCDF(beta)))

-----------------------------------------------------------------------------
(* Power analysis, utils/powerAnalysis *)

\* the inverse error function of this copy: infinite where the other one
\* takes the square root of a negative number
paInverseErrorFunction(x) ==
  LET a == 140
      Root(sign, sqrtArg) ==
        IF Lt(sqrtArg, 0) THEN sign * PosInf
        ELSE IF sign = 1 THEN Sqrt(sqrtArg) ELSE Neg(Sqrt(sqrtArg))
      Logged(sign, logTerm) ==
        Root(sign, Sub(Sub(Neg(logTerm), TwoLn2), Mul(a, logTerm)))
      Of(sign, absX) ==
        IF Ge(absX, Scale) THEN sign * PosInf
        ELSE IF Le(Sub(Scale, Mul(absX, absX)), 0) THEN sign * PosInf
        ELSE Logged(sign, Ln(Sub(Scale, Mul(absX, absX))))
  IN Of(IF Ge(x, 0) THEN 1 ELSE -1, Abs(x))

\* Math.sqrt(2) * inverseErrorFunction(2 * (1 - tail) - 1)
paZ(tail) ==
  Mul(Sqrt2, paInverseErrorFunction(Sub(Mul(Num(2), Sub(Scale, tail)), Scale)))

paCritical(alpha, testType) ==
  IF testType = "two" THEN paZ(Div(alpha, Num(2))) ELSE paZ(alpha)

\* Math.min(Math.max(power, 0), 1)
paClamped(power) == Min(Max(power, 0), Scale)

paCalculateZTestPower(mu1, mu0, sigma, n, alpha, testType) ==
  paClamped(powerAt(paCritical(alpha, testType), Sub(mu1, mu0),
                    Div(sigma, Sqrt(n)), testType))

paCalculateTTestPower(mu1, mu0, sigma, n, alpha, testType) ==
  paClamped(powerAt(paCritical(alpha, testType), Sub(mu1, mu0),
                    Div(sigma, Sqrt(n)), testType))

paPowerPoints(range, mu0, sigma, n, alpha, testType, hypothesisTestType) ==
  [k \in 1..powerLoopRounds(range) |->
     LET At(mu) ==
           [mu |-> mu,
            power |-> IF hypothesisTestType = "z"
                        THEN paCalculateZTestPower(mu, mu0, sigma, n, alpha, testType)
                        ELSE paCalculateTTestPower(mu, mu0, sigma, n, alpha, testType)]
     IN At(range.startMu + (k - 1) * range.step)]

paGeneratePowerFunctionData(mu0, sigma, n, alpha, testType, hypothesisTestType, startMu, endMu, step) ==
  paPowerPoints(powerRange(mu0, sigma, startMu, endMu, step),
                mu0, sigma, n, alpha, testType, hypothesisTestType)

paCalculateSampleSizeForPower(mu1, mu0, sigma, alpha, beta, testType) ==
  LET From(delta, zAlpha, zBeta) ==
        LET Squared(r) == Mul(r, r)
        IN Ceil(Squared(Div(Mul(Add(zAlpha, zBeta), sigma), delta)))
  IN From(Abs(Sub(mu1, mu0)), paCritical(alpha, testType), paZ(beta))

-----------------------------------------------------------------------------
(* The caller's array *)

\* data.sort((a, b) => a - b): the array is sorted where it stands
sortedInPlace(data) == [sortedData |-> SortAsc(data), data |-> SortAsc(data)]

\* const sortedData = [...data].sort((a, b) => a - b): the copy is sorted,
\* and the array passed is left as it was
spreadSorted(data) == [sortedData |-> SortAsc(data), data |-> data]

\* the functions of utils/statistics that sort their sample
SortingFunctions ==
  {"calculateMedian", "calculateQuartiles", "calculateKolmogorovSmirnovTest",
   "calculateChiSquareTest", "calculateAndersonDarlingTest"}

\* the tests of utils/goodnessOfFitAnalysis that sort their sample
GofSortingTests == {KolmogorovSmirnov, AndersonDarling}

\* the caller's array after a call: a function that sorts leaves what its
\* sort leaves, the others only read the array (reduce, map, filter, index
\* and spread into Math.min and Math.max)
arrayLeftBy(sorts, data) == IF sorts THEN spreadSorted(data).data ELSE data

\* the outcome of a call together with the caller's array after it
LeavingArray(outcome, data) ==
  [field \in DOMAIN outcome \cup {"data"} |->
     IF field = "data" THEN data ELSE outcome[field]]

-----------------------------------------------------------------------------
(* Confidence interval of the difference of two means *)

PairedLengthError == "paired samples must have the same length"

\* Math.round
Round(a) == Floor(Add(a, Scale \div 2))

\* a whole number as a key of the t table; NaN is no key and is below
\* nothing, so the lookup ends on the largest key as it does for a number
\* above every key
WholeOf(a) == IF IsFinite(a) THEN a \div Scale ELSE a

getTCriticalValue(confidenceLevel, degreesOfFreedom) ==
  getApproximateTCriticalValue(WholeOf(degreesOfFreedom), confidenceLevel)

\* the sum of squares about the mean over n - 1
sampleVariance(data) ==
  LET About(mean) ==
        LET Sq(val) == Mul(Sub(val, mean), Sub(val, mean))
        IN Div(SumOver(Sq, data), Num(Len(data) - 1))
  IN About(calculateMean(data))

calculatePooledVariance(data1, data2) ==
  LET n1 == Len(data1)
      n2 == Len(data2)
  IN Div(Add(Mul(Num(n1 - 1), sampleVariance(data1)),
             Mul(Num(n2 - 1), sampleVariance(data2))),
         Num(n1 + n2 - 2))

\* (var1/n1 + var2/n2)^2 / (var1^2/(n1^2 (n1-1)) + var2^2/(n2^2 (n2-1)))
welchSatterthwaite(var1, var2, n1, n2) ==
  LET Squared(sum) == Mul(sum, sum)
  IN Div(Squared(Add(Div(var1, Num(n1)), Div(var2, Num(n2)))),
         Add(Div(Mul(var1, var1), Num(n1 * n1 * (n1 - 1))),
             Div(Mul(var2, var2), Num(n2 * n2 * (n2 - 1)))))

\* the degrees of freedom calculateTwoSampleConfidenceInterval looks up
welchFloored(var1, var2, n1, n2) == Floor(welchSatterthwaite(var1, var2, n1, n2))

\* the degrees of freedom calculateTwoSampleMeanCI looks up
welchRounded(var1, var2, n1, n2) == Round(welchSatterthwaite(var1, var2, n1, n2))

calculateTwoSampleConfidenceIntervalThrows(data1, data2, confidenceLevel, options) ==
  IF Len(data1) = 0 \/ Len(data2) = 0 THEN EmptyData
  ELSE IF options.method = "paired" /\ Len(data1) # Len(data2) THEN PairedLengthError
  ELSE NoError

\* the method names are the source's, put into English
calculateTwoSampleConfidenceInterval(data1, data2, confidenceLevel, options) ==
  LET method == options.method
      n1 == Len(data1)
      n2 == Len(data2)
      var1 == calculateVariance(data1)
      var2 == calculateVariance(data2)
      methodName == IF method = "paired" THEN "paired t"
                    ELSE IF method = "pooled" THEN "pooled t"
                    ELSE "Welch t"
      Around(meanDiff, criticalValue, marginOfError) ==
        [lower |-> Sub(meanDiff, marginOfError),
         upper |-> Add(meanDiff, marginOfError),
         marginOfError |-> marginOfError,
         method |-> methodName,
         criticalValue |-> criticalValue,
         meanDiff |-> meanDiff]
      From(criticalValue, standardError) ==
        Around(Sub(calculateMean(data1), calculateMean(data2)), criticalValue,
               Mul(criticalValue, standardError))
  IN IF method = "paired"
       THEN From(getApproximateTCriticalValue(n1 - 1, confidenceLevel),
                 Div(calculateStd([i \in 1..n1 |-> Sub(data1[i], data2[i])]),
                     Sqrt(Num(n1))))
     ELSE IF method = "pooled"
       THEN From(getApproximateTCriticalValue(n1 + n2 - 2, confidenceLevel),
                 Sqrt(Mul(Div(Add(Mul(Num(n1 - 1), var1), Mul(Num(n2 - 1), var2)),
                              Num(n1 + n2 - 2)),
                          Add(Div(Scale, Num(n1)), Div(Scale, Num(n2))))))
     ELSE From(getApproximateTCriticalValue(WholeOf(welchFloored(var1, var2, n1, n2)),
                                            confidenceLevel),
               Sqrt(Add(Div(var1, Num(n1)), Div(var2, Num(n2)))))

\* calculateTwoSampleMeanCI of the backup copy; the copy of utils/statistics
\* takes no tail type and returns the two-tailed bounds
backupCalculateTwoSampleMeanCI(data1, data2, confidenceLevel, assumeEqualVariances, tailType) ==
  LET n1 == Len(data1)
      n2 == Len(data2)
      var1 == sampleVariance(data1)
      var2 == sampleVariance(data2)
      adjustedConfidenceLevel ==
        IF tailType = "two-tailed" THEN confidenceLevel
        ELSE Sub(Scale, Sub(Scale, confidenceLevel))
      Around(meanDifference, standardError, marginOfError, degreesOfFreedom) ==
        [meanDifference |-> meanDifference,
         standardError |-> standardError,
         marginOfError |-> marginOfError,
         lowerBound |-> backupBounds(tailType, meanDifference, marginOfError).lower,
         upperBound |-> backupBounds(tailType, meanDifference, marginOfError).upper,
         method |-> IF assumeEqualVariances THEN "Pooled variance t-test"
                    ELSE "Welch-Satterthwaite t-test",
         degreesOfFreedom |-> degreesOfFreedom]
      From(standardError, degreesOfFreedom, lookedUp) ==
        Around(Sub(calculateMean(data1), calculateMean(data2)), standardError,
               Mul(getTCriticalValue(adjustedConfidenceLevel, lookedUp), standardError),
               degreesOfFreedom)
  IN IF assumeEqualVariances
       THEN From(Sqrt(Mul(calculatePooledVariance(data1, data2),
                          Add(Div(Scale, Num(n1)), Div(Scale, Num(n2))))),
                 Num(n1 + n2 - 2), Round(Num(n1 + n2 - 2)))
       ELSE From(Sqrt(Add(Div(var1, Num(n1)), Div(var2, Num(n2)))),
                 welchSatterthwaite(var1, var2, n1, n2),
                 welchRounded(var1, var2, n1, n2))

calculateTwoSampleMeanCI(data1, data2, confidenceLevel, assumeEqualVariances) ==
  backupCalculateTwoSampleMeanCI(data1, data2, confidenceLevel, assumeEqualVariances,
                                 "two-tailed")

-----------------------------------------------------------------------------
(* The error function to nine decimals *)

\* the coefficients of erf are written to nine decimals; in billionths they
\* are whole numbers
Nano == 1000000000

\* a * b of two numbers in billionths, below 2.147 in size, by limbs of four
\* digits
MulNano(a, b) ==
  LET Limbs(v) == <<v % 10000, (v \div 10000) % 10000, v \div 100000000>>
      Product(x, y) ==
        x[3] * y[3] * 10000000
          + (x[3] * y[2] + x[2] * y[3]) * 1000
          + (x[3] * y[1] + x[2] * y[2] + x[1] * y[3]) \div 10
          + (x[2] * y[1] + x[1] * y[2]) \div 100000
          + (x[1] * y[1]) \div Nano
      Of(absA, absB) == Product(Limbs(absA), Limbs(absB))
      Size(v) == IF v < 0 THEN -v ELSE v
  IN IF (a < 0) = (b < 0) THEN Of(Size(a), Size(b)) ELSE -Of(Size(a), Size(b))

\* twice the remainder s.r with respect to the divisor b, carried into s.q
DoubledMod(s, b) ==
  IF s.r >= b - s.r THEN [q |-> 2 * s.q + 1, r |-> s.r - (b - s.r)]
  ELSE [q |-> 2 * s.q, r |-> 2 * s.r]

\* ten times the remainder r with respect to b: the next digit and remainder
TenfoldMod(r, b) ==
  LET Sum(two, eight) ==
        IF eight.r >= b - two.r
          THEN [q |-> eight.q + two.q + 1, r |-> eight.r - (b - two.r)]
          ELSE [q |-> eight.q + two.q, r |-> eight.r + two.r]
      From(two) == Sum(two, DoubledMod(DoubledMod(two, b), b))
  IN From(DoubledMod([q |-> 0, r |-> r], b))

RECURSIVE NanoDigits(_, _, _, _)
\* the quotient so far continued by digits more decimals
NanoDigits(quotient, r, b, digits) ==
  IF digits = 0 THEN quotient
  ELSE LET Next(step) == NanoDigits(quotient * 10 + step.q, step.r, b, digits - 1)
       IN Next(TenfoldMod(r, b))

\* a / b in billionths, for b > 0 and a quotient below 2.147 in size
DivNano(a, b) ==
  LET Of(absA) == NanoDigits(absA \div b, absA % b, b, 9)
  IN IF a < 0 THEN -Of(-a) ELSE Of(a)

RECURSIVE ExpSeriesNano(_, _, _, _)
\* 1 - y + y^2/2 - ...: the sum so far and the term of order k - 1
ExpSeriesNano(y, sum, term, k) ==
  IF term = 0 THEN sum
  ELSE LET Next(t) == ExpSeriesNano(y, sum + t, t, k + 1)
       IN Next(-(MulNano(term, y) \div k))

RECURSIVE ExpNegNano(_)
\* Math.exp(-y) for y >= 0
ExpNegNano(y) ==
  IF y > Nano \div 2
    THEN LET Squared(half) == MulNano(half, half) IN Squared(ExpNegNano(y \div 2))
    ELSE ExpSeriesNano(y, Nano, Nano, 1)

\* erf of the three copies (and of the backup), in billionths
erfNano(x) ==
  LET a1 == 254829592
      a2 == -284496736
      a3 == 1421413741
      a4 == -1453152027
      a5 == 1061405429
      p == 327591100
      sign == IF x >= 0 THEN 1 ELSE -1
      absX == IF x >= 0 THEN x ELSE -x
      Poly(t) ==
        MulNano(MulNano(MulNano(MulNano(MulNano(a5, t) + a4, t) + a3, t) + a2, t) + a1, t)
      Y(t) == Nano - MulNano(Poly(t), ExpNegNano(MulNano(absX, absX)))
  IN sign * Y(DivNano(Nano, Nano + MulNano(p, absX)))

\* Math.sqrt(2)
Sqrt2Nano == 1414213562

\* normalCDF = 0.5 * (1 + erf(x / Math.sqrt(2))), in halves of a billionth,
\* in which the half of a sum of billionths is exact
normalCDFHalfNano(x) == Nano + erfNano(DivNano(x, Sqrt2Nano))

-----------------------------------------------------------------------------
(* AnalysisResultProvider *)

\* a result is modelled by its id, a whole number above 0; null is 0
Null == 0

MAX_RESULTS == 20

MaxReachedError == "Maximum number of saved results reached"
TooLargeError == "Analysis result is too large"
NotFoundError == "Specified analysis result not found"

\* what localStorage.getItem(STORAGE_KEY) finds: nothing, a text that is no
\* JSON, the JSON of something that is no array, or the JSON of a list
NoItem == [kind |-> "null"]
NoJSON == [kind |-> "invalid"]
NoArray == [kind |-> "object"]
StoredList(results) == [kind |-> "array", results |-> results]

\* setCurrentResult has not been called since the last render
NoUpdate == -1

\* the provider after its first render: the state of useState, the updaters
\* queued by setAnalysisResults, the value queued by setCurrentResult, the
\* effects still to run, and the number of ids generated
FirstRender ==
  [mounted |-> TRUE,
   analysisResults |-> <<>>,
   currentResult |-> Null,
   updates |-> <<>>,
   currentUpdate |-> NoUpdate,
   effects |-> <<"load", "save">>,
   made |-> 0]

\* the component is not on the page
NotMounted == [FirstRender EXCEPT !.mounted = FALSE, !.effects = <<>>]

\* the updaters passed to setAnalysisResults
Replace(results) == [op |-> "replace", results |-> results, id |-> Null]
Prepend(id) == [op |-> "prepend", results |-> <<>>, id |-> id]
Remove(id) == [op |-> "remove", results |-> <<>>, id |-> id]

\* prev => ..., one updater applied to the list
updated(prev, update) ==
  CASE update.op = "replace" -> update.results
    [] update.op = "prepend" -> <<update.id>> \o prev
    [] OTHER -> SelectSeq(prev, LAMBDA result : result # update.id)

RECURSIVE reduced(_, _)
\* the queue of updaters applied in order, as a render does
reduced(prev, updates) ==
  IF updates = <<>> THEN prev
  ELSE reduced(updated(prev, Head(updates)), Tail(updates))

\* the handlers see the state of the last render: a call is made on the
\* rendered provider once its effects have run
Rendered == provider.mounted /\ provider.effects = <<>>

has(results, id) == \E i \in DOMAIN results : results[i] = id

-----------------------------------------------------------------------------
(* StatisticsApp: the saved datasets *)

\* the page after its first render; a dataset is its id and its name, an id
\* is the reading of the clock that Date.now() gave, a whole number above 0
FirstPage ==
  [mounted |-> TRUE,
   savedDatasets |-> <<>>,
   datasetName |-> "",
   selectedDatasetId |-> Null,
   now |-> 1]

\* the page is not shown
NoPage == [FirstPage EXCEPT !.mounted = FALSE]

\* name.trim()
trimmed(name) == IF name = " " THEN "" ELSE name

\* savedDatasets.find(d => d.id === id) finds one
foundIn(state, id) ==
  \E i \in DOMAIN state.savedDatasets : state.savedDatasets[i].id = id

\* the states the setters of saveDataset leave for the next render
saveDataset(state, name) ==
  IF trimmed(name) = "" THEN state
  ELSE [state EXCEPT
         !.savedDatasets = Append(@, [id |-> state.now, name |-> trimmed(name)]),
         !.datasetName = ""]

\* the deletion alone, the selection left as it is
deleteDatasetOnly(state, id) ==
  [state EXCEPT
    !.savedDatasets = SelectSeq(@, LAMBDA dataset : dataset.id # id)]

deleteDataset(state, id) ==
  [state EXCEPT
    !.savedDatasets = SelectSeq(@, LAMBDA dataset : dataset.id # id),
    !.selectedDatasetId = IF @ = id THEN Null ELSE @]

handleHistoryDatasetSelect(state, id) ==
  IF foundIn(state, id) THEN [state EXCEPT !.selectedDatasetId = id] ELSE state

-----------------------------------------------------------------------------
(* The lookup of a critical value, step by step *)

\* a loop that looks no further down than the row of df = 30
keepsLookingAbove30(closestDf) == closestDf \notin DOMAIN tTable /\ closestDf > 30

\* while (!(closestDf in tTable) && closestDf > 1)
keepsLooking(closestDf) == closestDf \notin DOMAIN tTable /\ closestDf > 1

\* closestDf--, which leaves Infinity as it is
decremented(closestDf) == IF closestDf = PosInf THEN PosInf ELSE closestDf - 1

\* Math.max(...Object.keys(tTable).map(Number))
largestDf == CHOOSE m \in DOMAIN tTable : \A k \in DOMAIN tTable : k <= m

\* the value returned for the closestDf that the loop ended with
tValueAt(closestDf, confidenceLevel) ==
  LET dfEntry == tTable[IF closestDf \in DOMAIN tTable THEN closestDf ELSE largestDf]
  IN OrElse(tColumn(dfEntry, confidenceLevel), OrElse(dfEntry[2], 1960))

\* getZCriticalValue: its table, with the levels in ten-thousandths
criticalValues ==
  6000 :> 253 @@ 7000 :> 524 @@ 8000 :> 842 @@ 9000 :> 1282 @@ 9500 :> 1645 @@
  9750 :> 1960 @@ 9900 :> 2326 @@ 9950 :> 2576 @@ 9990 :> 3090 @@ 9995 :> 3291

ZLevelError == "Confidence level must be between 0 and 1"

getZCriticalValueThrows(confidenceLevel) ==
  IF Le(confidenceLevel, 0) \/ Gt(confidenceLevel, Scale) THEN ZLevelError ELSE NoError

getZCriticalValue(confidenceLevel) ==
  LET level == 10 * confidenceLevel
      keys == DOMAIN criticalValues
      \* sortedLevels[i] and sortedLevels[i + 1] with the level strictly between
      below == {k \in keys : k < level /\ \E j \in keys : j > level}
      above == {k \in keys : k > level /\ \E j \in keys : j < level}
      lowerLevel == IF below # {} THEN CHOOSE k \in below : \A j \in below : j <= k
                    ELSE CHOOSE k \in keys : \A j \in keys : k <= j
      upperLevel == IF above # {} THEN CHOOSE k \in above : \A j \in above : k <= j
                    ELSE CHOOSE k \in keys : \A j \in keys : j <= k
      ratio == Div((level - lowerLevel) * (Scale \div 10), (upperLevel - lowerLevel) * (Scale \div 10))
  IN IF Ge(confidenceLevel, Scale) THEN 5000
     ELSE IF level \in keys THEN criticalValues[level]
     ELSE Add(criticalValues[lowerLevel],
              Mul(ratio, Sub(criticalValues[upperLevel], criticalValues[lowerLevel])))

-----------------------------------------------------------------------------
(* The loops of the incomplete gamma functions, round by round *)

\* a guard that lets one more round through
pastLimitByOne(n) == n > MaxIterations + 1

\* if (n > 1000) break, the guard of three of the loops
pastLimit(n) == n > MaxIterations

\* a loop about to start: its variables, the rounds it has made, and whether
\* a break has been met
LoopAt(loop, n, term, sum, a, b, c, d, h) ==
  [status |-> "running", loop |-> loop, rounds |-> 0, stop |-> FALSE,
   n |-> n, term |-> term, sum |-> sum, a |-> a, b |-> b, c |-> c, d |-> d, h |-> h]

\* a call that has returned after so many rounds of its loop
Ended(value, rounds) == [status |-> "ok", value |-> value, rounds |-> rounds]

\* seriesGamma: while (term > 1e-15 && n < 1000)
seriesGammaStart(s) == LoopAt("seriesGamma", 1, Div(Scale, s), Div(Scale, s), 0, 0, 0, 0, 0)

seriesGammaGoesOn(l) == Gt(l.term, 0) /\ l.n < MaxIterations

seriesGammaRound(s, x, l) ==
  LET With(term) ==
        [l EXCEPT !.term = term, !.sum = Add(l.sum, term), !.n = @ + 1, !.rounds = @ + 1]
  IN With(Mul(l.term, Div(x, Add(s, Num(l.n)))))

\* continuedGammaQ: for (let i = 1; i < 1000; i++), with i kept in n
continuedGammaQStart(s, x) ==
  LET From(b) == LoopAt("continuedGammaQ", 1, 0, 0, 0, b, PosInf, Div(Scale, b), Div(Scale, b))
  IN From(Sub(Add(x, Scale), s))

continuedGammaQGoesOn(l) == ~l.stop /\ l.n < MaxIterations

continuedGammaQRound(s, l) ==
  LET Stepped(an, b) ==
        LET Inverted(c, d) ==
              LET Scaled(delta) ==
                    [l EXCEPT !.b = b, !.c = c, !.d = d,
                              !.h = IF Settled(delta, c) THEN @ ELSE Mul(@, delta),
                              !.stop = Settled(delta, c),
                              !.n = @ + 1, !.rounds = @ + 1]
              IN Scaled(IF d = Div(Scale, c) THEN Scale ELSE Mul(d, c))
        IN Inverted(Add(b, Div(an, l.c)), Div(Scale, Add(Mul(an, l.d), b)))
  IN Stepped(Neg(Mul(Num(l.n), Sub(Num(l.n), s))), Add(l.b, Num(2)))

\* lowerIncompleteGamma: while (Math.abs(term) > eps), eps = 1e-10 being 0
\* to three decimals
lowerIncompleteGammaStart(s, x) ==
  LoopAt("lowerIncompleteGamma", 1, Div(x, s), 0, 0, 0, 0, 0, 0)

lowerIncompleteGammaGoesOn(l) == ~l.stop /\ Gt(Abs(l.term), 0)

lowerIncompleteGammaRound(s, x, l) ==
  [l EXCEPT !.sum = Add(@, l.term),
            !.term = Mul(@, Div(x, Add(s, Num(l.n)))),
            !.n = @ + 1, !.rounds = @ + 1,
            !.stop = pastLimit(l.n + 1)]

\* gammaLower: while (Math.abs(term) > eps * sum), where eps * sum is 0 to
\* three decimals but for its sign
gammaLowerStart(s) == LoopAt("gammaLower", 1, Div(Scale, s), Div(Scale, s), 0, 0, 0, 0, 0)

gammaLowerGoesOn(l) ==
  /\ ~l.stop
  /\ l.term # NaN /\ l.sum # NaN /\ l.sum # PosInf
  /\ Lt(l.sum, 0) \/ l.term # 0

gammaLowerRound(s, x, l) ==
  LET With(term) ==
        [l EXCEPT !.term = term, !.sum = Add(l.sum, term), !.n = @ + 1, !.rounds = @ + 1,
                  !.stop = pastLimit(l.n + 1)]
  IN With(Mul(l.term, Div(x, Add(s, Num(l.n)))))

\* gammaUpper: while (true), left by one of its two breaks
gammaUpperStart(s, x) ==
  LET From(b) == LoopAt("gammaUpper", 1, 0, 0, Sub(Scale, s), b, 0, Div(Scale, b), Div(Scale, b))
  IN From(Add(Add(x, Sub(Scale, s)), Scale))

gammaUpperGoesOn(l) == ~l.stop

gammaUpperRound(l) ==
  LET Stepped(a, b) ==
        LET Inverted(c, d) ==
              LET Scaled(delta) ==
                    [l EXCEPT !.a = a, !.b = b, !.c = c, !.d = d, !.h = Mul(@, delta),
                              !.n = IF delta = Scale THEN @ ELSE @ + 1,
                              !.rounds = @ + 1,
                              !.stop = delta = Scale \/ pastLimit(l.n + 1)]
              IN Scaled(Mul(c, d))
        IN Inverted(Div(Scale, Add(b, Mul(a, l.c))), Div(Scale, Add(b, Mul(a, l.d))))
  IN Stepped(Add(l.a, Num(l.n)), Add(l.b, Num(2)))

\* x^s e^-x, the factor of both functions of utils/goodnessOfFitAnalysis
gofGammaFactor(s, x) == Mul(Pow(x, s), Exp(Neg(x)))

\* e^(-x + s ln x - gammaFunction(s)), the factor of utils/statistics
gammaFactor(s, x) == Exp(Sub(Add(Neg(x), Mul(s, Ln(x))), gammaFunction(s)))

\* what the function called returns once its loop has ended
valueAfter(fn, s, x, l) ==
  CASE l.loop = "seriesGamma" -> Mul(l.sum, gammaFactor(s, x))
    [] l.loop = "continuedGammaQ" -> Sub(Scale, Mul(gammaFactor(s, x), l.h))
    [] l.loop = "lowerIncompleteGamma" ->
         Mul(Mul(Mul(Div(Scale, s), Pow(x, s)), Exp(Neg(x))), l.sum)
    [] l.loop = "gammaLower" ->
         IF fn = "gammaLower" THEN Mul(gofGammaFactor(s, x), l.sum)
         ELSE Sub(gofGammaFunction(s), Mul(gofGammaFactor(s, x), l.sum))
    [] OTHER ->
         IF fn = "gammaUpper" THEN Mul(gofGammaFactor(s, x), l.h)
         ELSE Sub(gofGammaFunction(s), Mul(gofGammaFactor(s, x), l.h))

-----------------------------------------------------------------------------
(* The calls *)

TailTypes == {"two-tailed", "left-tailed", "right-tailed"}
TestTypes == {"two", "left", "right"}

\* confidence levels: the tabulated ones and others
Levels == {900, 950, 990, 975, 850, 800}

\* significance levels
Alphas == {50, 100, 10}

IntervalOptions ==
  [isNormal : BOOLEAN, knownVariance : BOOLEAN,
   populationVariance : {Undefined, Num(4)}, tailType : TailTypes]

\* hypothesized means: whole ones, and those at exactly the critical distance
\* of a sample of mean 0 and standard error 1
Mu0Values ==
  {Num(0), Num(1)}
    \cup {Neg(getApproximateTCriticalValue(3, Sub(Scale, a))) : a \in Alphas}
    \cup {Neg(Mul(Sqrt2, inverseErrorFunction(Sub(Mul(Num(2), Sub(Scale, a)), Scale)))) :
            a \in Alphas}

NoCall == [fn |-> "none"]
NoResult == [status |-> "none"]

Init ==
  /\ call = NoCall
  /\ ret = NoResult
  /\ provider = NotMounted
  /\ localStorage = NoItem
  /\ page = NoPage

\* the caller is between two calls
Idle == call = NoCall

CallConfidenceInterval ==
  /\ UNCHANGED ui
  /\ Idle
  /\ \E data \in MeanSamples, level \in Levels, options \in IntervalOptions :
    /\ call' = [fn |-> "calculateConfidenceInterval", copy |-> "statistics",
                data |-> data, confidenceLevel |-> level, options |-> options]
    /\ ret' = Outcome(calculateConfidenceIntervalThrows(data, level, options),
                      calculateConfidenceInterval(data, level, options))

CallBackupConfidenceInterval ==
  /\ UNCHANGED ui
  /\ Idle
  /\ \E data \in MeanSamples, level \in Levels, options \in IntervalOptions :
    /\ call' = [fn |-> "calculateConfidenceInterval", copy |-> "backup",
                data |-> data, confidenceLevel |-> level, options |-> options]
    /\ ret' = Outcome(backupCalculateConfidenceIntervalThrows(data, level, options),
                      backupCalculateConfidenceInterval(data, level, options))

CallZTest ==
  /\ UNCHANGED ui
  /\ Idle
  /\ \E data \in MeanSamples, mu0 \in Mu0Values, sigma \in {Num(1), Num(2)},
     alpha \in Alphas, testType \in TestTypes :
    /\ call' = [fn |-> "performZTest", data |-> data, mu0 |-> mu0, sigma |-> sigma,
                alpha |-> alpha, testType |-> testType]
    /\ ret' = Outcome(performZTestThrows(data, mu0, sigma, alpha, testType),
                      performZTest(data, mu0, sigma, alpha, testType))

CallTTest ==
  /\ UNCHANGED ui
  /\ Idle
  /\ \E data \in MeanSamples, mu0 \in Mu0Values, alpha \in Alphas, testType \in TestTypes :
    /\ call' = [fn |-> "performTTest", data |-> data, mu0 |-> mu0,
                alpha |-> alpha, testType |-> testType]
    /\ ret' = Outcome(performTTestThrows(data, mu0, alpha, testType),
                      performTTest(data, mu0, alpha, testType))

\* the descriptive statistics of utils/statistics
DescriptiveFunctions ==
  {"calculateMean", "calculateMedian", "calculateMode", "calculateVariance",
   "calculateStd", "calculateStdDev", "calculateSkewness", "calculateKurtosis",
   "calculateQuartiles"}

describeThrows(fn, data) ==
  CASE fn = "calculateMean" -> calculateMeanThrows(data)
    [] fn = "calculateMedian" -> calculateMedianThrows(data)
    [] fn = "calculateMode" -> calculateModeThrows(data)
    [] fn = "calculateVariance" -> calculateVarianceThrows(data)
    [] fn = "calculateStd" -> calculateStdThrows(data)
    [] fn = "calculateStdDev" -> calculateStdDevThrows(data)
    [] fn = "calculateSkewness" -> calculateSkewnessThrows(data, NoStats)
    [] fn = "calculateKurtosis" -> calculateKurtosisThrows(data, NoStats)
    [] fn = "calculateQuartiles" -> calculateQuartilesThrows(data)

describe(fn, data) ==
  CASE fn = "calculateMean" -> calculateMean(data)
    [] fn = "calculateMedian" -> calculateMedian(data)
    [] fn = "calculateMode" -> calculateMode(data)
    [] fn = "calculateVariance" -> calculateVariance(data)
    [] fn = "calculateStd" -> calculateStd(data)
    [] fn = "calculateStdDev" -> calculateStdDev(data)
    [] fn = "calculateSkewness" -> calculateSkewness(data, NoStats)
    [] fn = "calculateKurtosis" -> calculateKurtosis(data, NoStats)
    [] fn = "calculateQuartiles" -> calculateQuartiles(data)

CallDescriptive ==
  /\ UNCHANGED ui
  /\ Idle
  /\ \E data \in MeanSamples, fn \in DescriptiveFunctions :
       /\ call' = [fn |-> fn, copy |-> "statistics", data |-> data]
       /\ ret' = Outcome(describeThrows(fn, data), describe(fn, data))

\* the descriptive statistics of utils/goodnessOfFitAnalysis
GofDescriptiveFunctions ==
  {"calculateMean", "calculateStd", "calculateSkewness", "calculateKurtosis"}

gofDescribe(fn, data) ==
  CASE fn = "calculateMean" -> gofCalculateMean(data)
    [] fn = "calculateStd" -> gofCalculateStd(data)
    [] fn = "calculateSkewness" -> gofCalculateSkewness(data)
    [] fn = "calculateKurtosis" -> gofCalculateKurtosis(data)

CallGofDescriptive ==
  /\ UNCHANGED ui
  /\ Idle
  /\ \E data \in MeanSamples, fn \in GofDescriptiveFunctions :
       /\ call' = [fn |-> fn, copy |-> "goodnessOfFitAnalysis", data |-> data]
       /\ ret' = Returned(gofDescribe(fn, data))

\* confidence levels outside (0, 1)
BadLevels == {0, Scale, 1500, -500}

\* numbers of trials and of successes, in and out of their domains
TrialValues == {Num(0), Num(4), Num(10)}
SuccessValues == {Num(0), Num(2), Num(4), Num(12)}

CallProportionInterval ==
  /\ UNCHANGED ui
  /\ Idle
  /\ \E successes \in SuccessValues, trials \in TrialValues,
        level \in Levels \cup BadLevels, method \in {"wald", "wilson"} :
       /\ call' = [fn |-> "calculateProportionConfidenceInterval",
                   successes |-> successes, trials |-> trials,
                   confidenceLevel |-> level, method |-> method]
       /\ ret' = Outcome(
                   calculateProportionConfidenceIntervalThrows(successes, trials, level, method),
                   calculateProportionConfidenceInterval(successes, trials, level, method))

CallTwoProportionInterval ==
  /\ UNCHANGED ui
  /\ Idle
  /\ \E successes1 \in SuccessValues, trials1 \in TrialValues,
        successes2 \in SuccessValues, trials2 \in TrialValues,
        level \in Levels \cup BadLevels, method \in {"wald", "continuity"} :
       /\ call' = [fn |-> "calculateTwoProportionConfidenceInterval",
                   successes1 |-> successes1, trials1 |-> trials1,
                   successes2 |-> successes2, trials2 |-> trials2,
                   confidenceLevel |-> level, method |-> method]
       /\ ret' = Outcome(
                   calculateTwoProportionConfidenceIntervalThrows(
                     successes1, trials1, successes2, trials2, level, method),
                   calculateTwoProportionConfidenceInterval(
                     successes1, trials1, successes2, trials2, level, method))

\* margins of error, in and out of their domain
MarginValues == {0, -500, 500, Num(1)}

SizeForMeanOptions ==
  [populationStd : {Undefined, Num(1)}, estimatedStd : {Undefined, 0, Num(1), Num(2)},
   useTDistribution : BOOLEAN]

SizeForProportionOptions ==
  [estimatedProportion : {Undefined, -100, 300, 1200}, useConservativeEstimate : BOOLEAN]

CallSampleSizeForMean ==
  /\ UNCHANGED ui
  /\ Idle
  /\ \E level \in Levels \cup BadLevels, marginOfError \in MarginValues,
        options \in SizeForMeanOptions :
       /\ call' = [fn |-> "calculateSampleSizeForMean", confidenceLevel |-> level,
                   marginOfError |-> marginOfError, options |-> options]
       /\ ret' = OutcomeOrHang(
                   calculateSampleSizeForMeanThrows(level, marginOfError, options),
                   calculateSampleSizeForMean(level, marginOfError, options))

CallSampleSizeForProportion ==
  /\ UNCHANGED ui
  /\ Idle
  /\ \E level \in Levels \cup BadLevels, marginOfError \in MarginValues,
        options \in SizeForProportionOptions :
       /\ call' = [fn |-> "calculateSampleSizeForProportion", confidenceLevel |-> level,
                   marginOfError |-> marginOfError, options |-> options]
       /\ ret' = Outcome(
                   calculateSampleSizeForProportionThrows(level, marginOfError, options),
                   calculateSampleSizeForProportion(level, marginOfError, options))

\* the caller has consumed the result and is ready for the next call
Return ==
  /\ UNCHANGED ui
  /\ ~Idle
  /\ call' = NoCall
  /\ ret' = NoResult

Next ==
  \/ Return
  \/ CallConfidenceInterval
  \/ CallBackupConfidenceInterval
  \/ CallZTest
  \/ CallTTest
  \/ CallDescriptive
  \/ CallGofDescriptive
  \/ CallProportionInterval
  \/ CallTwoProportionInterval
  \/ CallSampleSizeForMean
  \/ CallSampleSizeForProportion

Spec == Init /\ [][Next]_vars

-----------------------------------------------------------------------------
(* The calls of the estimators and of the goodness-of-fit tests *)

RECURSIVE Tally(_, _)
\* counts[1] values v, then counts[2] values v + 1, and so on
Tally(counts, v) ==
  IF counts = <<>> THEN <<>>
  ELSE [i \in 1..Head(counts) |-> Num(v)] \o Tally(Tail(counts), v + 1)

\* 80 values from 0 to 7, bell-shaped about 3.5
BellSample == Tally(<<2, 6, 12, 20, 20, 12, 6, 2>>, 0)

\* samples of whole numbers: of three values, with the largest above 2 and
\* below 2, of one value, and of many
GoFSamples ==
  {<<Num(1), Num(3), Num(0)>>, <<Num(1), Num(0), Num(1)>>, <<Num(3)>>, BellSample}

\* a family no function knows
UnknownFamily == "weibull"

\* a test executeGoFTest does not know
UnknownTest == "shapiro-wilk"

TestedFamilies == ModelledFamilies \cup {UnknownFamily}

GoFTests == {KolmogorovSmirnov, ChiSquare, AndersonDarling, JarqueBera}

\* the parameters passed: none, those of a normal, of an exponential and of
\* a uniform distribution
ParameterOptions ==
  {NoParameters,
   [NoParameters EXCEPT !.mean = Num(3), !.std = Num(2)],
   [NoParameters EXCEPT !.lambda = 500],
   [NoParameters EXCEPT !.a = 0, !.b = Num(8)]}

\* the bin counts passed: none, 2 and 8
BinCounts == {Undefined, 2, 8}

\* significance levels of the goodness-of-fit tests
GoFAlphas == {50, 10}

BasicStatsOptions ==
  {NoBasicStats,
   [NoBasicStats EXCEPT !.mean = Num(2), !.variance = 1500],
   [NoBasicStats EXCEPT !.mean = 500, !.std = 200]}

CallMLE ==
  /\ UNCHANGED ui
  /\ Idle
  /\ \E data \in SmallSamples, distType \in EstimatedFamilies \cup {UnknownFamily},
        basicStats \in BasicStatsOptions :
       /\ call' = [fn |-> "calculateMLE", copy |-> "statistics", data |-> data,
                   distType |-> distType, basicStats |-> basicStats]
       /\ ret' = Outcome(calculateMLEThrows(data, distType, basicStats),
                         calculateMLE(data, distType, basicStats))

CallMoM ==
  /\ UNCHANGED ui
  /\ Idle
  /\ \E data \in SmallSamples, distType \in EstimatedFamilies \cup {UnknownFamily},
        basicStats \in BasicStatsOptions :
       /\ call' = [fn |-> "calculateMoM", copy |-> "statistics", data |-> data,
                   distType |-> distType, basicStats |-> basicStats]
       /\ ret' = Outcome(calculateMoMThrows(data, distType, basicStats),
                         calculateMoM(data, distType, basicStats))

\* the exported function of utils/statistics that runs a test
testFunction(testType) ==
  CASE testType = KolmogorovSmirnov -> "calculateKolmogorovSmirnovTest"
    [] testType = ChiSquare -> "calculateChiSquareTest"
    [] testType = AndersonDarling -> "calculateAndersonDarlingTest"
    [] testType = JarqueBera -> "calculateJarqueBeraTest"

goFTest(data, testType, distributionType, parameters, numBins) ==
  CASE testType = KolmogorovSmirnov ->
         calculateKolmogorovSmirnovTest(data, distributionType, parameters)
    [] testType = ChiSquare ->
         calculateChiSquareTest(data, distributionType, parameters, numBins)
    [] testType = AndersonDarling ->
         calculateAndersonDarlingTest(data, distributionType, parameters)
    [] testType = JarqueBera -> calculateJarqueBeraTest(data)

\* a bin count is passed to the chi-square test only
CallGoFTest ==
  /\ UNCHANGED ui
  /\ Idle
  /\ \E data \in GoFSamples, testType \in GoFTests, distributionType \in TestedFamilies,
        parameters \in ParameterOptions, numBins \in BinCounts :
       /\ testType # ChiSquare => numBins = Undefined
       /\ call' = [fn |-> testFunction(testType), copy |-> "statistics", data |-> data,
                   distributionType |-> distributionType, parameters |-> parameters,
                   numBins |-> numBins]
       /\ ret' = Outcome(goFTestThrows(data, testType, distributionType, parameters,
                                       [numBins |-> numBins]),
                         goFTest(data, testType, distributionType, parameters, numBins))

CallExecuteGoFTest ==
  /\ UNCHANGED ui
  /\ Idle
  /\ \E data \in GoFSamples, testType \in GoFTests \cup {UnknownTest},
        distributionType \in TestedFamilies, significanceLevel \in GoFAlphas,
        parameters \in ParameterOptions, numBins \in BinCounts :
       /\ testType # ChiSquare => numBins = Undefined
       /\ call' = [fn |-> "executeGoFTest", copy |-> "statistics", data |-> data,
                   testType |-> testType, distributionType |-> distributionType,
                   significanceLevel |-> significanceLevel, parameters |-> parameters,
                   options |-> [numBins |-> numBins]]
       /\ ret' = Outcome(executeGoFTestThrows(data, testType, distributionType,
                                              significanceLevel, parameters,
                                              [numBins |-> numBins]),
                         executeGoFTest(data, testType, distributionType,
                                        significanceLevel, parameters,
                                        [numBins |-> numBins]))

\* the chi-square runs of utils/goodnessOfFitAnalysis whose critical value
\* takes the gamma function at -1, where the code gets a number of the order
\* of 1e16 and the model has none: those that end with -2 degrees of freedom
BeyondTheNumbers(data, testType, distributionType, parameters, numBins) ==
  /\ testType = ChiSquare
  /\ distributionType \in ModelledFamilies
  /\ gofCalculateChiSquareTest(data, distributionType, parameters, numBins).degreesOfFreedom
       = -2

CallGofExecuteGoFTest ==
  /\ UNCHANGED ui
  /\ Idle
  /\ \E data \in GoFSamples, testType \in GoFTests \cup {UnknownTest},
        distributionType \in TestedFamilies, significanceLevel \in GoFAlphas,
        parameters \in ParameterOptions, numBins \in BinCounts :
       /\ testType # ChiSquare => numBins = Undefined
       /\ ~BeyondTheNumbers(data, testType, distributionType, parameters, numBins)
       /\ call' = [fn |-> "executeGoFTest", copy |-> "goodnessOfFitAnalysis",
                   data |-> data, testType |-> testType,
                   distributionType |-> distributionType,
                   significanceLevel |-> significanceLevel, parameters |-> parameters,
                   options |-> [numBins |-> numBins]]
       /\ ret' = Outcome(gofExecuteGoFTestThrows(data, testType, distributionType,
                                                 significanceLevel, parameters,
                                                 [numBins |-> numBins]),
                         gofExecuteGoFTest(data, testType, distributionType,
                                           significanceLevel, parameters,
                                           [numBins |-> numBins]))

NextGoF ==
  \/ Return
  \/ CallMLE
  \/ CallMoM
  \/ CallGoFTest
  \/ CallExecuteGoFTest
  \/ CallGofExecuteGoFTest

SpecGoF == Init /\ [][NextGoF]_vars

-----------------------------------------------------------------------------
(* The calls of the power analysis *)

\* the two copies of the power analysis
PowerCopies == {"statistics", "powerAnalysis"}

\* alternative means, the hypothesized mean 0 among them
AlternativeMeans == {Num(1), Num(-1), 500, 0}

\* type II error probabilities
Betas == {200, 100, 50, 10}

\* standard deviations passed to generatePowerFunctionData, 0 and a negative
\* one among them
PlottedSigmas == {Num(1), 500, 0, Num(-1)}

\* the range of means to plot: left to its defaults, or passed
PlottedRanges ==
  {[startMu |-> Undefined, endMu |-> Undefined, step |-> Undefined],
   [startMu |-> 0, endMu |-> Num(1), step |-> 250],
   [startMu |-> 0, endMu |-> Num(1), step |-> 0],
   [startMu |-> Num(1), endMu |-> 0, step |-> 500],
   [startMu |-> 0, endMu |-> Num(1), step |-> -500]}

CallZTestPower ==
  /\ UNCHANGED ui
  /\ Idle
  /\ \E copy \in PowerCopies, mu1 \in AlternativeMeans, sigma \in {Num(1), Num(2)},
        n \in {Num(4), Num(25)}, alpha \in Alphas, testType \in TestTypes :
       /\ call' = [fn |-> "calculateZTestPower", copy |-> copy, mu1 |-> mu1, mu0 |-> 0,
                   sigma |-> sigma, n |-> n, alpha |-> alpha, testType |-> testType]
       /\ ret' = Returned(IF copy = "statistics"
                            THEN calculateZTestPower(mu1, 0, sigma, n, alpha, testType)
                            ELSE paCalculateZTestPower(mu1, 0, sigma, n, alpha, testType))

CallTTestPower ==
  /\ UNCHANGED ui
  /\ Idle
  /\ \E copy \in PowerCopies, mu1 \in AlternativeMeans, sigma \in {Num(1), Num(2)},
        n \in {Num(4), Num(25)}, alpha \in Alphas, testType \in TestTypes :
       /\ call' = [fn |-> "calculateTTestPower", copy |-> copy, mu1 |-> mu1, mu0 |-> 0,
                   sigma |-> sigma, n |-> n, alpha |-> alpha, testType |-> testType]
       /\ ret' = Returned(IF copy = "statistics"
                            THEN calculateTTestPower(mu1, 0, sigma, n, alpha, testType)
                            ELSE paCalculateTTestPower(mu1, 0, sigma, n, alpha, testType))

CallGeneratePowerFunctionData ==
  /\ UNCHANGED ui
  /\ Idle
  /\ \E copy \in PowerCopies, mu0 \in {0, Num(1)}, sigma \in PlottedSigmas,
        testType \in TestTypes, hypothesisTestType \in {"z", "t"},
        range \in PlottedRanges :
       /\ call' = [fn |-> "generatePowerFunctionData", copy |-> copy, mu0 |-> mu0,
                   sigma |-> sigma, n |-> Num(4), alpha |-> 50, testType |-> testType,
                   hypothesisTestType |-> hypothesisTestType, startMu |-> range.startMu,
                   endMu |-> range.endMu, step |-> range.step]
       /\ ret' =
            IF generatePowerFunctionDataHangs(mu0, sigma, Num(4), 50, testType,
                 hypothesisTestType, range.startMu, range.endMu, range.step)
              THEN [status |-> "hang"]
            ELSE IF copy = "statistics"
              THEN Returned(generatePowerFunctionData(mu0, sigma, Num(4), 50, testType,
                     hypothesisTestType, range.startMu, range.endMu, range.step))
              ELSE Returned(paGeneratePowerFunctionData(mu0, sigma, Num(4), 50, testType,
                     hypothesisTestType, range.startMu, range.endMu, range.step))

CallSampleSizeForPower ==
  /\ UNCHANGED ui
  /\ Idle
  /\ \E copy \in PowerCopies, mu1 \in AlternativeMeans, sigma \in {Num(1), Num(2)},
        alpha \in Alphas, beta \in Betas, testType \in TestTypes :
       /\ call' = [fn |-> "calculateSampleSizeForPower", copy |-> copy, mu1 |-> mu1,
                   mu0 |-> 0, sigma |-> sigma, alpha |-> alpha, beta |-> beta,
                   testType |-> testType]
       /\ ret' = Returned(
                   IF copy = "statistics"
                     THEN calculateSampleSizeForPower(mu1, 0, sigma, alpha, beta, testType)
                     ELSE paCalculateSampleSizeForPower(mu1, 0, sigma, alpha, beta, testType))

\* the caller feeds the sample size it was just returned into
\* calculateZTestPower of the same copy, with the arguments it sized for;
\* sizedFor keeps the beta of that sizing
CallZTestPowerAtSize ==
  /\ UNCHANGED ui
  /\ call.fn = "calculateSampleSizeForPower"
  /\ ret.status = "ok"
  /\ call' = [fn |-> "calculateZTestPower", copy |-> call.copy, mu1 |-> call.mu1,
              mu0 |-> call.mu0, sigma |-> call.sigma, n |-> ret.value,
              alpha |-> call.alpha, testType |-> call.testType, sizedFor |-> call.beta]
  /\ ret' = Returned(
              IF call.copy = "statistics"
                THEN calculateZTestPower(call.mu1, call.mu0, call.sigma, ret.value,
                                         call.alpha, call.testType)
                ELSE paCalculateZTestPower(call.mu1, call.mu0, call.sigma, ret.value,
                                           call.alpha, call.testType))

NextPower ==
  \/ Return
  \/ CallZTestPower
  \/ CallTTestPower
  \/ CallGeneratePowerFunctionData
  \/ CallSampleSizeForPower
  \/ CallZTestPowerAtSize

SpecPower == Init /\ [][NextPower]_vars

-----------------------------------------------------------------------------
(* The calls that are passed an array, with the array they leave *)

CallDescriptiveOnArray ==
  /\ UNCHANGED ui
  /\ Idle
  /\ \E data \in SmallSamples \cup {BalancedSample}, fn \in DescriptiveFunctions :
       /\ call' = [fn |-> fn, copy |-> "statistics", data |-> data]
       /\ ret' = LeavingArray(Outcome(describeThrows(fn, data), describe(fn, data)),
                              arrayLeftBy(fn \in SortingFunctions, data))

CallGoFTestOnArray ==
  /\ UNCHANGED ui
  /\ Idle
  /\ \E data \in GoFSamples, testType \in GoFTests, distributionType \in TestedFamilies :
       /\ call' = [fn |-> testFunction(testType), copy |-> "statistics", data |-> data,
                   distributionType |-> distributionType, parameters |-> NoParameters,
                   numBins |-> Undefined]
       /\ ret' = LeavingArray(
                   Outcome(goFTestThrows(data, testType, distributionType, NoParameters,
                                         [numBins |-> Undefined]),
                           goFTest(data, testType, distributionType, NoParameters,
                                   Undefined)),
                   arrayLeftBy(testFunction(testType) \in SortingFunctions, data))

CallGofExecuteGoFTestOnArray ==
  /\ UNCHANGED ui
  /\ Idle
  /\ \E data \in GoFSamples, testType \in GoFTests, distributionType \in TestedFamilies :
       /\ ~BeyondTheNumbers(data, testType, distributionType, NoParameters, Undefined)
       /\ call' = [fn |-> "executeGoFTest", copy |-> "goodnessOfFitAnalysis",
                   data |-> data, testType |-> testType,
                   distributionType |-> distributionType, significanceLevel |-> 50,
                   parameters |-> NoParameters, options |-> [numBins |-> Undefined]]
       /\ ret' = LeavingArray(
                   Outcome(gofExecuteGoFTestThrows(data, testType, distributionType, 50,
                                                   NoParameters, [numBins |-> Undefined]),
                           gofExecuteGoFTest(data, testType, distributionType, 50,
                                             NoParameters, [numBins |-> Undefined])),
                   arrayLeftBy(testType \in GofSortingTests, data))

NextFrame ==
  \/ Return
  \/ CallDescriptiveOnArray
  \/ CallGoFTestOnArray
  \/ CallGofExecuteGoFTestOnArray

SpecFrame == Init /\ [][NextFrame]_vars

-----------------------------------------------------------------------------
(* The calls of the two-sample intervals *)

\* samples of whole numbers; for every two of them the thousandths carry the
\* Welch-Satterthwaite value to the same side of every whole number and of
\* every half as the doubles do
PairedSamples ==
  {<<>>, <<Num(1)>>, <<Num(0), Num(2)>>, <<Num(1), Num(1)>>, <<Num(0), Num(4)>>,
   <<Num(0), Num(0), Num(3)>>}

TabulatedLevels == {900, 950, 990}

TwoSampleMethods == {"pooled", "welch", "paired"}

CallTwoSampleConfidenceInterval ==
  /\ UNCHANGED ui
  /\ Idle
  /\ \E data1 \in PairedSamples, data2 \in PairedSamples, level \in TabulatedLevels,
        method \in TwoSampleMethods :
       /\ call' = [fn |-> "calculateTwoSampleConfidenceInterval", copy |-> "statistics",
                   data1 |-> data1, data2 |-> data2, confidenceLevel |-> level,
                   options |-> [method |-> method]]
       /\ ret' = Outcome(
                   calculateTwoSampleConfidenceIntervalThrows(data1, data2, level,
                                                              [method |-> method]),
                   calculateTwoSampleConfidenceInterval(data1, data2, level,
                                                        [method |-> method]))

CallTwoSampleMeanCI ==
  /\ UNCHANGED ui
  /\ Idle
  /\ \E data1 \in PairedSamples, data2 \in PairedSamples, level \in TabulatedLevels,
        assumeEqualVariances \in BOOLEAN :
       /\ call' = [fn |-> "calculateTwoSampleMeanCI", copy |-> "statistics",
                   data1 |-> data1, data2 |-> data2, confidenceLevel |-> level,
                   assumeEqualVariances |-> assumeEqualVariances]
       /\ ret' = Returned(calculateTwoSampleMeanCI(data1, data2, level,
                                                   assumeEqualVariances))

CallBackupTwoSampleMeanCI ==
  /\ UNCHANGED ui
  /\ Idle
  /\ \E data1 \in PairedSamples, data2 \in PairedSamples, level \in TabulatedLevels,
        assumeEqualVariances \in BOOLEAN, tailType \in TailTypes :
       /\ call' = [fn |-> "calculateTwoSampleMeanCI", copy |-> "backup",
                   data1 |-> data1, data2 |-> data2, confidenceLevel |-> level,
                   assumeEqualVariances |-> assumeEqualVariances, tailType |-> tailType]
       /\ ret' = Returned(backupCalculateTwoSampleMeanCI(data1, data2, level,
                                                         assumeEqualVariances, tailType))

NextTwoSample ==
  \/ Return
  \/ CallTwoSampleConfidenceInterval
  \/ CallTwoSampleMeanCI
  \/ CallBackupTwoSampleMeanCI

SpecTwoSample == Init /\ [][NextTwoSample]_vars

-----------------------------------------------------------------------------
(* The calls of erf and normalCDF *)

ErfCopies == {"statistics", "powerAnalysis", "goodnessOfFitAnalysis"}

\* arguments from -1 to 1 by steps of 0.05
ErfSteps == 20
ErfArguments == {k * (Nano \div ErfSteps) : k \in -ErfSteps..ErfSteps}

CallErf ==
  /\ UNCHANGED ui
  /\ Idle
  /\ \E copy \in ErfCopies, x \in ErfArguments :
       /\ call' = [fn |-> "erf", copy |-> copy, x |-> x]
       /\ ret' = Returned(erfNano(x))

CallNormalCDF ==
  /\ UNCHANGED ui
  /\ Idle
  /\ \E copy \in ErfCopies, x \in ErfArguments :
       /\ call' = [fn |-> "normalCDF", copy |-> copy, x |-> x]
       /\ ret' = Returned(normalCDFHalfNano(x))

NextErf ==
  \/ Return
  \/ CallErf
  \/ CallNormalCDF

SpecErf == Init /\ [][NextErf]_vars

-----------------------------------------------------------------------------
(* The life of AnalysisResultProvider *)

\* setAnalysisResults calls between two renders
MaxQueued == 2

\* results saved in one life of the provider
MaxSaved == 2

\* the lists found in localStorage: short ones and ones at the limit
StoredLengths == {0, 1, MAX_RESULTS - 1, MAX_RESULTS}

StoredOptions ==
  {NoItem, NoJSON, NoArray} \cup {StoredList([i \in 1..n |-> i]) : n \in StoredLengths}

\* generateUniqueId(): an id that no result has yet
generateUniqueId == MAX_RESULTS + provider.made + 1

\* the ids a caller passes: the first and the last that can be stored, the
\* last generated, and one that no result has
PassedIds == {1, MAX_RESULTS, MAX_RESULTS + provider.made, MAX_RESULTS + MaxSaved + 1}

InitResults ==
  /\ \E found \in StoredOptions :
       /\ localStorage = found
       /\ call = [fn |-> "mount", found |-> found]
       /\ provider = FirstRender
  /\ ret = NoResult
  /\ page = NoPage

\* useEffect(() => { ... setAnalysisResults(parsedResults) ... }, [])
RunLoadEffect ==
  /\ provider.effects # <<>>
  /\ Head(provider.effects) = "load"
  /\ provider' = [provider EXCEPT
       !.effects = Tail(@),
       !.updates = IF localStorage.kind = "array"
                     THEN Append(@, Replace(localStorage.results)) ELSE @]
  /\ UNCHANGED <<call, ret, localStorage, page>>

\* useEffect(() => { localStorage.setItem(...) }, [analysisResults])
RunSaveEffect ==
  /\ provider.effects # <<>>
  /\ Head(provider.effects) = "save"
  /\ localStorage' = StoredList(provider.analysisResults)
  /\ provider' = [provider EXCEPT !.effects = Tail(@)]
  /\ UNCHANGED <<call, ret, page>>

\* the provider renders again with the queued updates applied; a new list
\* makes the save effect run
Render ==
  /\ Rendered
  /\ provider.updates # <<>> \/ provider.currentUpdate # NoUpdate
  /\ provider' = [provider EXCEPT
       !.analysisResults = reduced(@, provider.updates),
       !.currentResult = IF provider.currentUpdate = NoUpdate THEN @
                         ELSE provider.currentUpdate,
       !.updates = <<>>,
       !.currentUpdate = NoUpdate,
       !.effects = IF provider.updates # <<>> THEN <<"save">> ELSE <<>>]
  /\ UNCHANGED <<call, ret, localStorage, page>>

CallSaveResult ==
  /\ Rendered
  /\ Len(provider.updates) < MaxQueued
  /\ provider.made < MaxSaved
  /\ \E fits \in BOOLEAN :
       /\ call' = [fn |-> "saveResult", fits |-> fits]
       /\ IF Len(provider.analysisResults) >= MAX_RESULTS
            THEN ret' = Threw(MaxReachedError) /\ UNCHANGED provider
          ELSE IF ~fits
            THEN ret' = Threw(TooLargeError) /\ UNCHANGED provider
          ELSE /\ ret' = Returned(generateUniqueId)
               /\ provider' = [provider EXCEPT
                    !.made = @ + 1,
                    !.updates = Append(@, Prepend(generateUniqueId))]
  /\ UNCHANGED <<localStorage, page>>

CallLoadResult ==
  /\ Rendered
  /\ \E id \in PassedIds :
       /\ call' = [fn |-> "loadResult", id |-> id]
       /\ IF has(provider.analysisResults, id)
            THEN /\ ret' = Returned(Undefined)
                 /\ provider' = [provider EXCEPT !.currentUpdate = id]
            ELSE ret' = Threw(NotFoundError) /\ UNCHANGED provider
  /\ UNCHANGED <<localStorage, page>>

CallDeleteResult ==
  /\ Rendered
  /\ Len(provider.updates) < MaxQueued
  /\ \E id \in PassedIds :
       /\ call' = [fn |-> "deleteResult", id |-> id]
       /\ ret' = Returned(Undefined)
       /\ provider' = [provider EXCEPT
            !.updates = Append(@, Remove(id)),
            !.currentUpdate = IF provider.currentResult = id THEN Null ELSE @]
  /\ UNCHANGED <<localStorage, page>>

CallClearAllResults ==
  /\ Rendered
  /\ Len(provider.updates) < MaxQueued
  /\ call' = [fn |-> "clearAllResults"]
  /\ ret' = Returned(Undefined)
  /\ provider' = [provider EXCEPT
       !.updates = Append(@, Replace(<<>>)),
       !.currentUpdate = Null]
  /\ UNCHANGED <<localStorage, page>>

NextResults ==
  \/ RunLoadEffect
  \/ RunSaveEffect
  \/ Render
  \/ CallSaveResult
  \/ CallLoadResult
  \/ CallDeleteResult
  \/ CallClearAllResults

SpecResults == InitResults /\ [][NextResults]_vars

-----------------------------------------------------------------------------
(* The events of StatisticsApp *)

\* datasets saved in one life of the page
MaxDatasets == 3

\* what the name field holds when Save Dataset is clicked
TypedNames == {" ", "a", "b"}

\* the ids of the rows on the page, each with its checkbox and its button
RowIds == {page.savedDatasets[i].id : i \in DOMAIN page.savedDatasets}

InitPage ==
  /\ page = FirstPage
  /\ call = NoCall
  /\ ret = NoResult
  /\ provider = NotMounted
  /\ localStorage = NoItem

\* Each handler is bound to a click or a change only, and React renders the
\* page before the next event is delivered: an event is the handler run on
\* the rendered state, followed by the render.

\* the clock may or may not have moved on since the last click
ClickSaveDataset ==
  /\ page.mounted
  /\ Len(page.savedDatasets) < MaxDatasets
  /\ \E name \in TypedNames, passed \in {0, 1} :
       /\ page.now + passed <= MaxDatasets
       /\ call' = [fn |-> "saveDataset", name |-> name]
       /\ page' = [saveDataset([page EXCEPT !.now = @ + passed], name)
                     EXCEPT !.now = page.now + passed]
  /\ ret' = Returned(Undefined)
  /\ UNCHANGED <<provider, localStorage>>

ClickDelete ==
  /\ page.mounted
  /\ \E id \in RowIds :
       /\ call' = [fn |-> "deleteDataset", id |-> id,
                    selectedDatasetId |-> page.selectedDatasetId]
       /\ page' = deleteDataset(page, id)
  /\ ret' = Returned(Undefined)
  /\ UNCHANGED <<provider, localStorage>>

ChangeCheckbox ==
  /\ page.mounted
  /\ \E id \in RowIds :
       /\ call' = [fn |-> "handleHistoryDatasetSelect", id |-> id]
       /\ page' = handleHistoryDatasetSelect(page, id)
  /\ ret' = Returned(Undefined)
  /\ UNCHANGED <<provider, localStorage>>

NextPage ==
  \/ ClickSaveDataset
  \/ ClickDelete
  \/ ChangeCheckbox

SpecPage == InitPage /\ [][NextPage]_vars

-----------------------------------------------------------------------------
(* The calls of the critical-value functions *)

\* degrees of freedom: keys of the table, whole numbers between two keys,
\* below the first key and above the last, and Infinity
LookupDfs == {0, 1, 2, 25, 26, 29, 31, 99, 149, 1001, 10000, 10050, PosInf}

\* levels of the table and others
LookupLevels == TabulatedLevels \cup {500, 850, 975}

\* the call is in its loop
InLoop == ret.status = "running"

CallGetTCriticalValue ==
  /\ UNCHANGED ui
  /\ Idle
  /\ \E level \in LookupLevels, df \in LookupDfs :
       /\ call' = [fn |-> "getTCriticalValue", confidenceLevel |-> level,
                   degreesOfFreedom |-> df]
       /\ ret' = [status |-> "running", closestDf |-> df]

\* one round of the loop
StepClosestDf ==
  /\ UNCHANGED ui
  /\ InLoop
  /\ keepsLooking(ret.closestDf)
  /\ ret' = [ret EXCEPT !.closestDf = decremented(@)]
  /\ UNCHANGED call

\* the loop has ended
EndGetTCriticalValue ==
  /\ UNCHANGED ui
  /\ InLoop
  /\ ~keepsLooking(ret.closestDf)
  /\ ret' = Returned(tValueAt(ret.closestDf, call.confidenceLevel))
  /\ UNCHANGED call

CallGetZCriticalValue ==
  /\ UNCHANGED ui
  /\ Idle
  /\ \E level \in LookupLevels \cup BadLevels :
       /\ call' = [fn |-> "getZCriticalValue", confidenceLevel |-> level]
       /\ ret' = Outcome(getZCriticalValueThrows(level), getZCriticalValue(level))

NextCritical ==
  \/ CallGetTCriticalValue
  \/ StepClosestDf
  \/ EndGetTCriticalValue
  \/ CallGetZCriticalValue
  \/ ~InLoop /\ Return

SpecCritical == Init /\ [][NextCritical]_vars

-----------------------------------------------------------------------------
(* The calls of chiSquareCDF *)

\* the statistics passed: the halves up to ChiSquareHalves / 2
ChiSquareHalves == 40

ChiSquareStatistics == {k * (Scale \div 2) : k \in 1..ChiSquareHalves}

\* the degrees of freedom passed
ChiSquareDfs == {1, 2, 4, 6}

CallChiSquareCDF ==
  /\ UNCHANGED ui
  /\ Idle
  /\ \E copy \in {"statistics", "goodnessOfFitAnalysis"}, x \in ChiSquareStatistics,
        df \in ChiSquareDfs :
       /\ call' = [fn |-> "chiSquareCDF", copy |-> copy, x |-> x, df |-> df]
       /\ ret' = Returned(IF copy = "statistics" THEN chiSquareCDF(x, df)
                          ELSE gofChiSquareCDF(x, df))

NextChiSquare ==
  \/ CallChiSquareCDF
  \/ Return

SpecChiSquare == Init /\ [][NextChiSquare]_vars

-----------------------------------------------------------------------------
(* The calls of the incomplete gamma functions *)

\* shapes, multiples of 1/2
GammaShapes == {500, Num(1), 2500}

\* arguments: none, small ones, and one so large that the terms of a series
\* in its powers do not fall
GammaArguments == {0, 500, Num(2), Num(5), Num(2000)}

InGammaLoop == ret.status = "running"

CallRegularizedGammaP ==
  /\ UNCHANGED ui
  /\ Idle
  /\ \E s \in GammaShapes, x \in GammaArguments :
       /\ call' = [fn |-> "regularizedGammaP", s |-> s, x |-> x]
       /\ ret' = IF Le(x, 0) THEN Ended(0, 0)
                 ELSE IF Lt(x, Add(s, Scale)) THEN seriesGammaStart(s)
                 ELSE continuedGammaQStart(s, x)

CallLowerIncompleteGamma ==
  /\ UNCHANGED ui
  /\ Idle
  /\ \E s \in GammaShapes \cup {0}, x \in GammaArguments :
       /\ call' = [fn |-> "lowerIncompleteGamma", s |-> s, x |-> x]
       /\ ret' = IF Le(x, 0) THEN Ended(0, 0)
                 ELSE IF Le(s, 0) THEN Ended(NaN, 0)
                 ELSE lowerIncompleteGammaStart(s, x)

CallGammaLower ==
  /\ UNCHANGED ui
  /\ Idle
  /\ \E s \in GammaShapes, x \in GammaArguments :
       /\ call' = [fn |-> "gammaLower", s |-> s, x |-> x]
       /\ ret' = IF Le(x, 0) THEN Ended(0, 0)
                 ELSE IF Ge(x, Add(s, Scale)) THEN gammaUpperStart(s, x)
                 ELSE gammaLowerStart(s)

CallGammaUpper ==
  /\ UNCHANGED ui
  /\ Idle
  /\ \E s \in GammaShapes, x \in GammaArguments :
       /\ call' = [fn |-> "gammaUpper", s |-> s, x |-> x]
       /\ ret' = IF Le(x, 0) THEN Ended(gofGammaFunction(s), 0)
                 ELSE IF Lt(x, Add(s, Scale)) THEN gammaLowerStart(s)
                 ELSE gammaUpperStart(s, x)

RoundOfSeriesGamma ==
  /\ UNCHANGED ui
  /\ InGammaLoop /\ ret.loop = "seriesGamma"
  /\ seriesGammaGoesOn(ret)
  /\ ret' = seriesGammaRound(call.s, call.x, ret)
  /\ UNCHANGED call

RoundOfContinuedGammaQ ==
  /\ UNCHANGED ui
  /\ InGammaLoop /\ ret.loop = "continuedGammaQ"
  /\ continuedGammaQGoesOn(ret)
  /\ ret' = continuedGammaQRound(call.s, ret)
  /\ UNCHANGED call

RoundOfLowerIncompleteGamma ==
  /\ UNCHANGED ui
  /\ InGammaLoop /\ ret.loop = "lowerIncompleteGamma"
  /\ lowerIncompleteGammaGoesOn(ret)
  /\ ret' = lowerIncompleteGammaRound(call.s, call.x, ret)
  /\ UNCHANGED call

RoundOfGammaLower ==
  /\ UNCHANGED ui
  /\ InGammaLoop /\ ret.loop = "gammaLower"
  /\ gammaLowerGoesOn(ret)
  /\ ret' = gammaLowerRound(call.s, call.x, ret)
  /\ UNCHANGED call

RoundOfGammaUpper ==
  /\ UNCHANGED ui
  /\ InGammaLoop /\ ret.loop = "gammaUpper"
  /\ gammaUpperGoesOn(ret)
  /\ ret' = gammaUpperRound(ret)
  /\ UNCHANGED call

\* the loop goes on
GammaLoopGoesOn ==
  CASE ret.loop = "seriesGamma" -> seriesGammaGoesOn(ret)
    [] ret.loop = "continuedGammaQ" -> continuedGammaQGoesOn(ret)
    [] ret.loop = "lowerIncompleteGamma" -> lowerIncompleteGammaGoesOn(ret)
    [] ret.loop = "gammaLower" -> gammaLowerGoesOn(ret)
    [] OTHER -> gammaUpperGoesOn(ret)

EndOfGammaLoop ==
  /\ UNCHANGED ui
  /\ InGammaLoop
  /\ ~GammaLoopGoesOn
  /\ ret' = Ended(valueAfter(call.fn, call.s, call.x, ret), ret.rounds)
  /\ UNCHANGED call

NextGammaLoops ==
  \/ CallRegularizedGammaP
  \/ CallLowerIncompleteGamma
  \/ CallGammaLower
  \/ CallGammaUpper
  \/ RoundOfSeriesGamma
  \/ RoundOfContinuedGammaQ
  \/ RoundOfLowerIncompleteGamma
  \/ RoundOfGammaLower
  \/ RoundOfGammaUpper
  \/ EndOfGammaLoop
  \/ ~InGammaLoop /\ Return

SpecGammaLoops == Init /\ [][NextGammaLoops]_vars

-----------------------------------------------------------------------------
(* Properties *)

IsCall(fn) == call.fn = fn /\ ret.status = "ok"

\* C1: calculateConfidenceInterval returns [mean - E, mean + E] for a two-tailed
\* interval, lower = -Infinity and upper = mean + E for a left-tailed one,
\* lower = mean - E and upper = +Infinity for a right-tailed one, with E the
\* margin of error it returns.
C1_BoundsFollowTailType ==
  IsCall("calculateConfidenceInterval") =>
    LET mean == calculateMean(call.data)
        E == ret.value.marginOfError
        tailType == call.options.tailType
    IN /\ E = Mul(ret.value.criticalValue,
                  Div(IF call.options.knownVariance
                           /\ call.options.populationVariance # Undefined
                        THEN Sqrt(call.options.populationVariance)
                        ELSE calculateStd(call.data),
                      Sqrt(Num(Len(call.data)))))
       /\ tailType = "two-tailed" =>
            ret.value.lower = Sub(mean, E) /\ ret.value.upper = Add(mean, E)
       /\ tailType = "left-tailed" =>
            ret.value.lower = NegInf /\ ret.value.upper = Add(mean, E)
       /\ tailType = "right-tailed" =>
            ret.value.lower = Sub(mean, E) /\ ret.value.upper = PosInf

\* the statistic of the test that returned
TestStatistic ==
  IF call.fn = "performZTest" THEN ret.value.zValue ELSE ret.value.tValue

IsTest == (IsCall("performZTest") \/ IsCall("performTTest"))

\* C2 as stated: rejected is true only when the statistic is strictly beyond
\* the critical value; a statistic equal to the critical value is not rejected.
C2_RejectedOnlyStrictlyBeyond ==
  IsTest =>
    (ret.value.rejected =>
       CASE call.testType = "left" -> Lt(TestStatistic, ret.value.criticalValue)
         [] call.testType = "right" -> Gt(TestStatistic, ret.value.criticalValue)
         [] OTHER -> Gt(Abs(TestStatistic), ret.value.criticalValue))

\* C2 amended: rejected is true exactly when the statistic is at or beyond the
\* critical value (statistic <= critical for a left-tailed test, statistic >=
\* critical for a right-tailed test, |statistic| >= critical for a two-tailed
\* test); a statistic equal to the critical value is rejected.
C2_RejectedAtOrBeyond ==
  IsTest =>
    (ret.value.rejected <=>
       CASE call.testType = "left" -> Le(TestStatistic, ret.value.criticalValue)
         [] call.testType = "right" -> Ge(TestStatistic, ret.value.criticalValue)
         [] OTHER -> Ge(Abs(TestStatistic), ret.value.criticalValue))

\* a test whose statistic equals its critical value, and which rejects
C2_Witness ==
  /\ IsTest
  /\ call.testType = "right"
  /\ TestStatistic = ret.value.criticalValue
  /\ ret.value.rejected

\* the two-sided critical value and the standard error of the test called
TestTwoSidedCritical ==
  IF call.fn = "performZTest"
    THEN Mul(Sqrt2, inverseErrorFunction(
           Sub(Mul(Num(2), Sub(Scale, Div(call.alpha, Num(2)))), Scale)))
    ELSE getApproximateTCriticalValue(Len(call.data) - 1,
                                      Sub(Scale, Div(call.alpha, Num(2))))

TestStandardError ==
  Div(IF call.fn = "performZTest" THEN call.sigma ELSE calculateStd(call.data),
      Sqrt(Num(Len(call.data))))

TestMargin == Mul(TestTwoSidedCritical, TestStandardError)

\* C3 as stated: for every test type the interval returned by the tests is
\* [mean - c SE, mean + c SE], with both bounds finite.
C3_IntervalAlwaysTwoSided ==
  IsTest =>
    /\ ret.value.confidenceInterval.lower = Sub(ret.value.mean, TestMargin)
    /\ ret.value.confidenceInterval.upper = Add(ret.value.mean, TestMargin)
    /\ ret.value.confidenceInterval.lower # NegInf
    /\ ret.value.confidenceInterval.upper # PosInf

\* C3 amended: with c the two-sided (alpha/2) critical value for every test
\* type, the interval is [mean - c SE, mean + c SE] for a two-sided test,
\* (-Infinity, mean + c SE] for a left-tailed test and [mean - c SE, +Infinity)
\* for a right-tailed test.
C3_IntervalFollowsTestType ==
  IsTest =>
    LET ci == ret.value.confidenceInterval
    IN /\ call.testType = "two" =>
            /\ ci.lower = Sub(ret.value.mean, TestMargin)
            /\ ci.upper = Add(ret.value.mean, TestMargin)
       /\ call.testType = "left" =>
            ci.lower = NegInf /\ ci.upper = Add(ret.value.mean, TestMargin)
       /\ call.testType = "right" =>
            ci.lower = Sub(ret.value.mean, TestMargin) /\ ci.upper = PosInf

\* a left-tailed test returned an interval without a lower bound
C3_Witness ==
  /\ IsTest
  /\ call.testType = "left"
  /\ TestStandardError > 0
  /\ ret.value.confidenceInterval.lower = NegInf
  /\ IsFinite(ret.value.confidenceInterval.upper)


-----------------------------------------------------------------------------
(* Errors *)

IsDescriptiveCall ==
  /\ call # NoCall
  /\ call.fn \in DescriptiveFunctions
  /\ "data" \in DOMAIN call
  /\ "copy" \in DOMAIN call
  /\ call.copy \in {"statistics", "goodnessOfFitAnalysis"}

\* C8: every descriptive-statistics function (mean, median, mode, variance,
\* std, sample stdDev, skewness, kurtosis, quartiles), in each copy of the
\* library, throws the empty-data error when its sample is empty and never
\* returns a value for it.
C8_EmptySampleThrows ==
  (IsDescriptiveCall /\ Len(call.data) = 0)
    => (ret.status = "throw" /\ ret.error = EmptyData)

TakesTrials ==
  call.fn \in {"calculateProportionConfidenceInterval",
               "calculateTwoProportionConfidenceInterval"}

TakesMargin ==
  call.fn \in {"calculateSampleSizeForMean", "calculateSampleSizeForProportion"}

TrialsOutOfDomain ==
  \/ /\ call.fn = "calculateProportionConfidenceInterval"
     /\ (call.trials <= 0 \/ call.successes > call.trials)
  \/ /\ call.fn = "calculateTwoProportionConfidenceInterval"
     /\ \/ call.trials1 <= 0
        \/ call.trials2 <= 0
        \/ call.successes1 > call.trials1
        \/ call.successes2 > call.trials2

LevelOutOfDomain ==
  /\ TakesTrials \/ TakesMargin
  /\ (call.confidenceLevel <= 0 \/ call.confidenceLevel >= Scale)

MarginOutOfDomain == TakesMargin /\ call.marginOfError <= 0

ProportionOutOfDomain ==
  /\ call.fn = "calculateSampleSizeForProportion"
  /\ call.options.estimatedProportion # Undefined
  /\ call.options.estimatedProportion < 0

OutOfDomain ==
  \/ TrialsOutOfDomain
  \/ LevelOutOfDomain
  \/ MarginOutOfDomain
  \/ ProportionOutOfDomain

\* C9: a call whose input is out of domain (trials <= 0, successes > trials,
\* confidenceLevel outside (0,1), marginOfError <= 0, or a negative
\* proportion estimate) throws and returns no result.
C9_OutOfDomainThrows == OutOfDomain => ret.status = "throw"

\* the part of C9 that does hold: the checks the functions do make
C9_CheckedInputsThrow ==
  (TrialsOutOfDomain \/ MarginOutOfDomain \/ (TakesTrials /\ LevelOutOfDomain))
    => ret.status = "throw"

-----------------------------------------------------------------------------
(* Goodness-of-fit tests *)

IsGoFRun == call.fn = "executeGoFTest" /\ ret.status = "ok"

\* C4: whenever executeGoFTest returns, isReject is (statistic >
\* criticalValue) for the Kolmogorov-Smirnov and chi-square tests and
\* (pValue < significanceLevel) for the Anderson-Darling and Jarque-Bera
\* tests.
C4_RejectionPolicies ==
  IsGoFRun =>
    ret.value.isReject =
      (IF call.testType \in {KolmogorovSmirnov, ChiSquare}
         THEN Gt(ret.value.statistic, ret.value.criticalValue)
         ELSE Lt(ret.value.pValue, call.significanceLevel))

\* a Kolmogorov-Smirnov run the two policies decide differently: the one
\* value of the sample is all of the uniform distribution fitted, the
\* statistic is 0 and so is the p-value the code computes, below the
\* significance level, and the hypothesis is not rejected
C4_Witness ==
  /\ IsGoFRun
  /\ call.testType = KolmogorovSmirnov
  /\ ret.value.statistic = 0
  /\ ret.value.pValue = 0
  /\ ~ret.value.isReject
  /\ Lt(ret.value.pValue, call.significanceLevel)

\* an Anderson-Darling run that rejects on its p-value
C4_WitnessPValue ==
  /\ IsGoFRun
  /\ call.testType = AndersonDarling
  /\ ret.value.isReject
  /\ Lt(ret.value.pValue, call.significanceLevel)

\* a chi-square test returned, from either copy, for a family it supports
IsChiSquareRun ==
  /\ ret.status = "ok"
  /\ \/ call.fn = "calculateChiSquareTest"
     \/ call.fn = "executeGoFTest" /\ call.testType = ChiSquare
  /\ call.distributionType \in ModelledFamilies

\* the bin count passed to the test that returned
PassedBins ==
  IF call.fn = "executeGoFTest" THEN call.options.numBins ELSE call.numBins

\* the observed and the expected frequencies of the bins it returned
ReturnedObserved ==
  IF call.copy = "statistics"
    THEN [i \in DOMAIN ret.value.bins |-> ret.value.bins[i].observed]
    ELSE ret.value.observedFrequencies

ReturnedExpected ==
  IF call.copy = "statistics"
    THEN [i \in DOMAIN ret.value.bins |-> ret.value.bins[i].expected]
    ELSE ret.value.expectedFrequencies

\* the expected frequencies of the bins before any merging
InitialExpected ==
  IF call.copy = "statistics"
    THEN LET Of(bins) == [i \in DOMAIN bins |-> bins[i].expected]
         IN Of(binsBeforeMerging(call.data, call.distributionType, call.parameters,
                                 PassedBins))
    ELSE gofBinsBeforeMerging(call.data, call.distributionType, call.parameters,
                              PassedBins).expectedFrequencies

\* C5: the observed frequencies of the bins the chi-square test returns sum
\* to the number of values of the sample, for every sample, supported family
\* and bin count.
C5_ObservedSumToN ==
  IsChiSquareRun => SeqSum(ReturnedObserved) = Num(Len(call.data))

\* C6: a bin of expected frequency below 5 is merged into a neighbour, its
\* frequencies added to the neighbour's and not discarded: of the bins
\* returned none is below 5 unless it is the only one, and their expected
\* frequencies add up to those of the bins before the merging.
C6_LowBinsMerged ==
  IsChiSquareRun =>
    /\ Len(ReturnedExpected) > 1 =>
         \A i \in DOMAIN ReturnedExpected : ~Lt(ReturnedExpected[i], Num(MinExpected))
    /\ SeqSum(ReturnedExpected) = SeqSum(InitialExpected)

\* C7: the degrees of freedom are the number of bins returned, less 1, less
\* 2 for the normal family and 1 for the others, whatever parameters were
\* passed.
C7_DegreesOfFreedom ==
  IsChiSquareRun =>
    ret.value.degreesOfFreedom =
      Len(ReturnedExpected) - 1 - (IF call.distributionType = "normal" THEN 2 ELSE 1)

\* the test a call runs, if it runs one
TestRun ==
  IF call.fn = "executeGoFTest" THEN call.testType
  ELSE IF \E t \in GoFTests : testFunction(t) = call.fn
    THEN CHOOSE t \in GoFTests : testFunction(t) = call.fn
  ELSE "none"

\* the call passes a family the function or the test does not support
UnsupportedFamily ==
  \/ /\ call.fn \in {"calculateMLE", "calculateMoM"}
     /\ call.distType \notin EstimatedFamilies
  \/ /\ TestRun \in {KolmogorovSmirnov, ChiSquare}
     /\ call.distributionType \notin ModelledFamilies \cup OtherFamilies
  \/ /\ TestRun = AndersonDarling
     /\ call.distributionType # "normal"

\* C10: an unknown family passed to calculateMLE or calculateMoM, or a family
\* a goodness-of-fit test does not support passed to it, makes the call throw
\* instead of returning a result.
C10_UnsupportedFamilyThrows == UnsupportedFamily => ret.status = "throw"

\* the part of C10 that does hold: every function but the chi-square test of
\* utils/statistics
C10_ThrowsButChiSquare ==
  (UnsupportedFamily /\ ~(call.copy = "statistics" /\ TestRun = ChiSquare))
    => ret.status = "throw"

\* the part of C7 that does hold: the chi-square test of
\* utils/goodnessOfFitAnalysis takes 2 for the normal family and 1 otherwise
C7_GofDegreesOfFreedom ==
  (IsChiSquareRun /\ call.copy = "goodnessOfFitAnalysis") => C7_DegreesOfFreedom

-----------------------------------------------------------------------------
(* Defaults *)

\* the interval of one mean is taken from the t table
UsesTTable ==
  /\ call.fn = "calculateConfidenceInterval"
  /\ ~call.options.knownVariance
  /\ (call.options.isNormal \/ Len(call.data) <= 30)

\* the confidence level of the call has no column in the t table
NoColumn == tColumn(tTable[1], call.confidenceLevel) = Undefined

\* C11: no function meets an error condition and silently returns a default
\* in its place: a t interval asked at a confidence level the t table has no
\* column for is not returned with the critical value of the 0.95 column, and
\* a descriptive statistic of an empty sample is not returned as 0 or 3 but
\* thrown.
C11_NoSilentDefault ==
  /\ (UsesTTable /\ NoColumn /\ Len(call.data) > 1 /\ ret.status = "ok")
       => ret.value.criticalValue
            # getApproximateTCriticalValue(Len(call.data) - 1, 950)
  /\ (IsDescriptiveCall /\ Len(call.data) = 0) => ret.status = "throw"

-----------------------------------------------------------------------------
(* Finite results *)

\* the call that returned took a valid sample, of finite values, two at
\* least, and a finite hypothesized mean if it takes one
OnValidSample ==
  /\ ret.status = "ok"
  /\ "data" \in DOMAIN call
  /\ Len(call.data) >= 2
  /\ "mu0" \in DOMAIN call => IsFinite(call.mu0)

\* the bounds of a returned interval that are not explicitly infinite
FiniteBounds(interval, leftTailed, rightTailed) ==
  /\ ~leftTailed => IsFinite(interval.lower)
  /\ ~rightTailed => IsFinite(interval.upper)

\* C12: every numeric field of what a test or an interval of one mean
\* returns for a valid sample is a finite number, the lower bound of a
\* left-tailed interval and the upper bound of a right-tailed one excepted.
C12_FiniteFields ==
  /\ (OnValidSample /\ call.fn = "performTTest") =>
       /\ \A x \in {ret.value.mean, ret.value.std, ret.value.tValue,
                    ret.value.pValue, ret.value.criticalValue} : IsFinite(x)
       /\ FiniteBounds(ret.value.confidenceInterval,
                       call.testType = "left", call.testType = "right")
  /\ (OnValidSample /\ call.fn = "performZTest") =>
       /\ \A x \in {ret.value.mean, ret.value.zValue,
                    ret.value.pValue, ret.value.criticalValue} : IsFinite(x)
       /\ FiniteBounds(ret.value.confidenceInterval,
                       call.testType = "left", call.testType = "right")
  /\ (OnValidSample /\ call.fn = "calculateConfidenceInterval") =>
       /\ \A x \in {ret.value.marginOfError, ret.value.criticalValue} : IsFinite(x)
       /\ FiniteBounds(ret.value, call.options.tailType = "left-tailed",
                       call.options.tailType = "right-tailed")

-----------------------------------------------------------------------------
(* Proportion intervals *)

\* lo <= x <= hi: false of NaN
Within(x, lo, hi) == Le(lo, x) /\ Le(x, hi)

\* C13: for every input the validation accepts, both bounds returned by
\* calculateProportionConfidenceInterval lie in [0, 1] and both bounds
\* returned by calculateTwoProportionConfidenceInterval lie in [-1, 1],
\* whatever the method.
C13_BoundsClamped ==
  /\ (call.fn = "calculateProportionConfidenceInterval" /\ ret.status = "ok") =>
       Within(ret.value.lower, 0, Scale) /\ Within(ret.value.upper, 0, Scale)
  /\ (call.fn = "calculateTwoProportionConfidenceInterval" /\ ret.status = "ok") =>
       Within(ret.value.lower, -Scale, Scale) /\ Within(ret.value.upper, -Scale, Scale)

\* the part of C13 that does hold: at a confidence level of 0.85 or more
\* the one-proportion bounds lie in [0, 1]
C13_OneProportionAtHighLevels ==
  (/\ call.fn = "calculateProportionConfidenceInterval"
   /\ ret.status = "ok"
   /\ Ge(call.confidenceLevel, 850)) =>
    Within(ret.value.lower, 0, Scale) /\ Within(ret.value.upper, 0, Scale)

-----------------------------------------------------------------------------
(* Power analysis *)

\* generatePowerFunctionData was called with the range left to its defaults
PlotsDefaultRange ==
  /\ call.fn = "generatePowerFunctionData"
  /\ call.startMu = Undefined /\ call.endMu = Undefined /\ call.step = Undefined

\* the means returned start at mu0 - 3 sigma, advance by sigma / 10 and stay
\* at or below mu0 + 3 sigma
InDefaultRange(points) ==
  /\ Len(points) > 0 => points[1].mu = Sub(call.mu0, Mul(Num(3), call.sigma))
  /\ \A k \in 2..Len(points) :
       points[k].mu = Add(points[k - 1].mu, Div(call.sigma, Num(10)))
  /\ \A k \in 1..Len(points) :
       Le(points[k].mu, Add(call.mu0, Mul(Num(3), call.sigma)))

\* C14: every call of generatePowerFunctionData ends and returns its points;
\* with the default range the means start at mu0 - 3 sigma, advance by
\* sigma / 10 and never exceed mu0 + 3 sigma.
C14_EndsWithinRange ==
  call.fn = "generatePowerFunctionData" =>
    /\ ret.status = "ok"
    /\ PlotsDefaultRange => InDefaultRange(ret.value)

\* the part of C14 that does hold: what a call with the default range
\* returns, when it returns, lies in the range
C14_ReturnedWithinRange ==
  (PlotsDefaultRange /\ ret.status = "ok") => InDefaultRange(ret.value)

-----------------------------------------------------------------------------
(* The caller's array *)

-----------------------------------------------------------------------------
(* The width of an interval *)

Width(interval) == Sub(interval.upper, interval.lower)

\* the interval the called copy returns for the sample and the options of the
\* call at another confidence level
IntervalAt(confidenceLevel) ==
  IF call.copy = "statistics"
  THEN calculateConfidenceInterval(call.data, confidenceLevel, call.options)
  ELSE backupCalculateConfidenceInterval(call.data, confidenceLevel, call.options)

HasSpread(data) == \E i, j \in DOMAIN data : data[i] # data[j]

\* C16: for a fixed sample and fixed two-tailed options, the width upper - lower
\* that calculateConfidenceInterval returns is strictly larger at every strictly
\* larger confidence level.
C16_WidthIncreasing ==
  (/\ call.fn = "calculateConfidenceInterval"
   /\ ret.status = "ok"
   /\ call.options.tailType = "two-tailed"
   /\ HasSpread(call.data)) =>
     \A confidenceLevel \in Levels :
       confidenceLevel > call.confidenceLevel =>
         Gt(Width(IntervalAt(confidenceLevel)), Width(ret.value))

\* the part that holds: among the levels of the t table and of the switch
\* (0.90, 0.95, 0.99) the width is strictly increasing
C16_IncreasingAtTabulatedLevels ==
  (/\ call.fn = "calculateConfidenceInterval"
   /\ ret.status = "ok"
   /\ call.options.tailType = "two-tailed"
   /\ HasSpread(call.data)
   /\ call.confidenceLevel \in {900, 950, 990}) =>
     \A confidenceLevel \in {900, 950, 990} :
       confidenceLevel > call.confidenceLevel =>
         Gt(Width(IntervalAt(confidenceLevel)), Width(ret.value))

-----------------------------------------------------------------------------
(* Welch degrees of freedom *)

\* a call that computes a Welch interval of two samples and has returned
IsWelchCall ==
  /\ ret.status = "ok"
  /\ \/ call.fn = "calculateTwoSampleConfidenceInterval" /\ call.options.method = "welch"
     \/ call.fn = "calculateTwoSampleMeanCI" /\ ~call.assumeEqualVariances

\* the variance the called function puts into the Welch-Satterthwaite formula
WelchVariance(data) ==
  IF call.fn = "calculateTwoSampleConfidenceInterval"
  THEN calculateVariance(data) ELSE sampleVariance(data)

\* the Welch-Satterthwaite value of the call, before any rounding
WelchValue ==
  welchSatterthwaite(WelchVariance(call.data1), WelchVariance(call.data2),
                     Len(call.data1), Len(call.data2))

\* the call has used the critical value of the t table at degreesOfFreedom:
\* the result names it, or names the margin it gives with the standard error
UsedCriticalAt(degreesOfFreedom) ==
  IF call.fn = "calculateTwoSampleConfidenceInterval"
  THEN ret.value.criticalValue = getTCriticalValue(call.confidenceLevel, degreesOfFreedom)
  ELSE ret.value.marginOfError =
         Mul(getTCriticalValue(call.confidenceLevel, degreesOfFreedom),
             ret.value.standardError)

\* C17: in every function that computes a Welch interval the critical value
\* is looked up at the Welch-Satterthwaite value rounded down to an integer.
C17_WelchFloored ==
  (IsWelchCall /\ IsFinite(WelchValue)) => UsedCriticalAt(Floor(WelchValue))

\* calculateTwoSampleMeanCI of both copies looks the critical value up at
\* the nearest integer
C17_RoundedInTwoSampleMeanCI ==
  (IsWelchCall /\ call.fn = "calculateTwoSampleMeanCI" /\ IsFinite(WelchValue)) =>
    UsedCriticalAt(Round(WelchValue))

\* the part that holds: calculateTwoSampleConfidenceInterval looks the
\* critical value up at the floor
C17_FlooredInTwoSampleConfidenceInterval ==
  (IsWelchCall /\ call.fn = "calculateTwoSampleConfidenceInterval"
     /\ IsFinite(WelchValue)) =>
    ret.value.criticalValue = getTCriticalValue(call.confidenceLevel, Floor(WelchValue))

-----------------------------------------------------------------------------
(* The Jarque-Bera statistic *)

IsJarqueBeraRun == ret.status = "ok" /\ TestRun = JarqueBera

\* the skewness the called copy computes for the sample
RunSkewness ==
  IF call.copy = "statistics" THEN calculateSkewness(call.data, NoStats)
  ELSE gofCalculateSkewness(call.data)

\* the excess kurtosis of the sample: the fourth moment about the mean over n,
\* over the fourth power of the standard deviation, minus 3
ExcessKurtosis(data) == calculateKurtosis(data, NoStats)

\* (n/6) (skew^2 + k^2/4)
JarqueBeraOf(n, skew, k) ==
  Mul(Div(Num(n), Num(6)), Add(Mul(skew, skew), Div(Mul(k, k), Num(4))))

\* equal to within a hundredth, the room the thousandths need
Near(a, b) == Le(Abs(Sub(a, b)), Scale \div 100)

\* C18: the Jarque-Bera statistic of a sample is (n/6) (skew^2 + k^2/4), where
\* k is the excess kurtosis of the sample, the fourth standardized moment
\* (over n) minus 3.
C18_JarqueBeraStatistic ==
  (IsJarqueBeraRun /\ HasSpread(call.data)) =>
    Near(ret.value.statistic,
         JarqueBeraOf(Len(call.data), RunSkewness, ExcessKurtosis(call.data)))

\* what utils/statistics computes: calculateKurtosis has subtracted 3 and
\* calculateJarqueBeraTest subtracts 3 again
C18_ThreeSubtractedTwice ==
  (IsJarqueBeraRun /\ call.copy = "statistics") =>
    ret.value.statistic =
      JarqueBeraOf(Len(call.data), RunSkewness,
                   Sub(ExcessKurtosis(call.data), Num(3)))

-----------------------------------------------------------------------------
(* The default number of bins *)

\* the least whole number whose square is n or more
CeilSqrt(n) == CHOOSE k \in 0..n : k * k >= n /\ \A j \in 0..(k - 1) : j * j < n

\* C20: when the caller passes no bin count, the chi-square test cuts the
\* range of the data into ceil(sqrt(n)) bins of equal width, n being the size
\* of the sample.
C20_DefaultBinCount ==
  (IsChiSquareRun /\ PassedBins = Undefined) =>
    Len(InitialExpected) = CeilSqrt(Len(call.data))

\* what both copies do: without a bin count they cut the range into 10 bins
C20_TenBinsByDefault ==
  (IsChiSquareRun /\ PassedBins = Undefined) => Len(InitialExpected) = DefaultBins

-----------------------------------------------------------------------------
(* The sample size for a power, fed back *)

\* calculateZTestPower has returned for the sample size that
\* calculateSampleSizeForPower gave for the same arguments and a power 1 - beta
IsPowerAtSize ==
  /\ call.fn = "calculateZTestPower"
  /\ "sizedFor" \in DOMAIN call
  /\ ret.status = "ok"
  /\ call.mu1 # call.mu0

\* C19: for mu1 other than mu0, the sample size calculateSampleSizeForPower
\* returns for a power 1 - beta, fed into calculateZTestPower with the same
\* arguments, gives a power of at least 1 - beta.
C19_RoundTripPower ==
  IsPowerAtSize => Ge(ret.value, Sub(Scale, call.sizedFor))

-----------------------------------------------------------------------------
(* The error function at 0 *)

\* C21: erf(0) is exactly 0 and normalCDF(0) is exactly 0.5, in every copy of
\* erf and normalCDF.
C21_ExactAtZero ==
  /\ (call.fn = "erf" /\ call.x = 0 /\ ret.status = "ok") => ret.value = 0
  /\ (call.fn = "normalCDF" /\ call.x = 0 /\ ret.status = "ok") => ret.value = Nano

\* what the copies return at 0: a billionth, the rest of the coefficients'
\* sum 0.999999999 to 1, and the half of that above 0.5
C21_ABillionthAtZero ==
  /\ (call.fn = "erf" /\ call.x = 0 /\ ret.status = "ok") => ret.value = 1
  /\ (call.fn = "normalCDF" /\ call.x = 0 /\ ret.status = "ok") => ret.value = Nano + 1

\* erf is odd in every copy: the sign is taken off and put back
C21_ErfOdd ==
  (call.fn = "erf" /\ ret.status = "ok" /\ call.x # 0) => ret.value = -erfNano(-call.x)

-----------------------------------------------------------------------------
(* The saved results *)

\* C22: whatever list was found in localStorage and whatever calls of
\* saveResult, deleteResult and clearAllResults are made, between renders
\* or not, the rendered list has no more than MAX_RESULTS results
C22_NeverMoreThanMax == Len(provider.analysisResults) <= MAX_RESULTS

\* a call of saveResult on a rendered list of MAX_RESULTS results throws
C22_ThrowsAtMax ==
  [][(CallSaveResult /\ Len(provider.analysisResults) >= MAX_RESULTS)
       => (ret' = Threw(MaxReachedError) /\ provider' = provider)]_vars

\* the list after one call of saveResult and the render has no more than
\* MAX_RESULTS results, when one call was made since the last render
C22_OneSavePerRender ==
  [][(Render /\ Len(provider.updates) = 1 /\ Len(provider.analysisResults) <= MAX_RESULTS)
       => Len(provider'.analysisResults) <= MAX_RESULTS]_vars

\* the provider has been mounted and none of its functions called yet
Mounting == call.fn = "mount" /\ call.found.kind = "array"

\* effects run, updates rendered
AtRest == Rendered /\ provider.updates = <<>> /\ provider.currentUpdate = NoUpdate

\* C23: from the mount of the provider until the first call of one of its
\* functions, localStorage holds the results that it held at the mount: the
\* save effect does not put the initial empty list in their place
C23_StoredResultsKept == Mounting => localStorage = call.found

\* once the mount has settled, the results found in localStorage are the
\* rendered list and are in localStorage
C23_LoadedOnceSettled ==
  (Mounting /\ AtRest)
    => (provider.analysisResults = call.found.results /\ localStorage = call.found)

\* C24: the current result is null or a result of the rendered list
C24_CurrentResultInList ==
  provider.currentResult # Null
    => has(provider.analysisResults, provider.currentResult)

\* the render after clearAllResults makes the current result null
C24_NullAfterClear ==
  [][(Render /\ call.fn = "clearAllResults") => provider'.currentResult = Null]_vars

\* the render after deleteResult of the rendered current result makes the
\* current result null
C24_NullAfterDelete ==
  [][(Render /\ call.fn = "deleteResult" /\ call.id = provider.currentResult)
       => provider'.currentResult = Null]_vars

\* loadResult of an id that no rendered result has throws and changes nothing
C24_UnknownIdThrows ==
  [][(CallLoadResult /\ ~has(provider.analysisResults, call'.id))
       => (ret' = Threw(NotFoundError) /\ provider' = provider)]_vars

\* with a render between two calls, the current result stays in the list
C24_InListWithRenderBetweenCalls ==
  [][(Render /\ Len(provider.updates) + (IF provider.currentUpdate = NoUpdate THEN 0 ELSE 1) = 1
        /\ C24_CurrentResultInList)
       => C24_CurrentResultInList']_vars

-----------------------------------------------------------------------------
(* The saved datasets *)

\* C28: after any sequence of saves, selections and deletions of saved
\* datasets, the selected dataset is none or one of the saved datasets
C28_SelectedIsSaved ==
  page.selectedDatasetId = Null \/ foundIn(page, page.selectedDatasetId)

\* the selected dataset has been deleted, others are left, none is selected
C28_SelectedDeleted ==
  /\ call.fn = "deleteDataset"
  /\ call.selectedDatasetId = call.id
  /\ page.savedDatasets # <<>>
  /\ page.selectedDatasetId = Null

-----------------------------------------------------------------------------
(* The sample size for a mean *)

\* calculateSampleSizeForMean was called with a margin of error above 0 and a
\* standard deviation that is not negative
IsSizeForMeanInDomain ==
  /\ call.fn = "calculateSampleSizeForMean"
  /\ ret # NoResult
  /\ Gt(call.marginOfError, 0)
  /\ \/ call.options.populationStd # Undefined
     \/ call.options.estimatedStd # Undefined

\* C25: for every margin of error above 0, every standard deviation from 0
\* and every confidence level, with the refinement by the t distribution or
\* without it, calculateSampleSizeForMean ends and returns a sample size
C25_SampleSizeReturned ==
  IsSizeForMeanInDomain
    => (ret.status = "ok" /\ IsFinite(ret.value) /\ Ge(ret.value, 0))

\* at the levels 0.90, 0.95 and 0.99 a call without the refinement returns a
\* sample size
C25_ReturnedWithoutRefinement ==
  (/\ IsSizeForMeanInDomain
   /\ call.confidenceLevel \in TabulatedLevels
   /\ ~call.options.useTDistribution)
    => (ret.status = "ok" /\ IsFinite(ret.value) /\ Ge(ret.value, 0))

\* at the levels 0.90, 0.95 and 0.99 a call either returns a sample size or
\* never returns
C25_ReturnedOrNeverEnded ==
  (IsSizeForMeanInDomain /\ call.confidenceLevel \in TabulatedLevels)
    => \/ ret.status = "hang"
       \/ ret.status = "ok" /\ IsFinite(ret.value) /\ Ge(ret.value, 0)

-----------------------------------------------------------------------------
(* Critical values *)

\* the lookup of a t value has returned
IsTLookup == call.fn = "getTCriticalValue" /\ ret.status = "ok"

\* the largest key of the table that is not above df; the last key when
\* there is none
rowFor(df) ==
  LET notAbove == {k \in DOMAIN tTable : k <= df}
  IN IF notAbove = {} THEN 10000
     ELSE CHOOSE k \in notAbove : \A j \in notAbove : j <= k

\* C27: the t value returned is the one in the row of the largest tabulated
\* df that is not above the requested df, and in the row of df = 10000 when
\* the requested df is below the first row or above the last
C27_RowOfLargestDfNotAbove ==
  IsTLookup
    => \E column \in 1..3 :
         /\ ret.value = tTable[rowFor(call.degreesOfFreedom)][column]
         /\ \A k \in DOMAIN tTable \ {rowFor(call.degreesOfFreedom)} :
              tTable[k][column] # ret.value

\* a df between two rows has got the value of the row below it
C27_SnappedDown ==
  /\ IsTLookup
  /\ call.degreesOfFreedom = 29
  /\ call.confidenceLevel = 990
  /\ ret.value = tTable[25][3]

\* a df below the first row has got the value of the last row
C27_BelowTheTable ==
  /\ IsTLookup
  /\ call.degreesOfFreedom = 0
  /\ ret.value = tTable[10000][2]

\* the value that the step-by-step lookup returns is the value of
\* getApproximateTCriticalValue
C27_SameAsInOneStep ==
  IsTLookup
    => ret.value = getApproximateTCriticalValue(call.degreesOfFreedom, call.confidenceLevel)

\* the lookup for df = Infinity never returns
C27_InfinityNeverReturns ==
  [][(call.fn = "getTCriticalValue" /\ call.degreesOfFreedom = PosInf) => InLoop']_vars

\* C26: at a confidence level that is none of 0.90, 0.95 and 0.99 the
\* critical value of the interval is the one that the inverse error function
\* gives for that level, and no entry of the table for another level
C26_ApproximatedOffTheTable ==
  (/\ call.fn = "calculateConfidenceInterval"
   /\ call.copy = "statistics"
   /\ ret.status = "ok"
   /\ NoColumn)
    => ret.value.criticalValue = zForLevel(call.confidenceLevel)

\* it is so when the interval is one of the z distribution
C26_ApproximatedForZ ==
  (/\ call.fn = "calculateConfidenceInterval"
   /\ call.copy = "statistics"
   /\ ret.status = "ok"
   /\ NoColumn
   /\ ~UsesTTable)
    => ret.value.criticalValue = zForLevel(call.confidenceLevel)

\* the t value returned at such a level is the entry of the table for 0.95
C26_TValueOfAnotherLevel ==
  (IsTLookup /\ NoColumn)
    => ret.value = tTable[rowFor(call.degreesOfFreedom)][2]

\* the z value that getZCriticalValue returns at a level that its table does
\* not hold lies on the line between the entries of two levels that it holds
C26_ZValueBetweenEntries ==
  (/\ call.fn = "getZCriticalValue"
   /\ ret.status = "ok"
   /\ call.confidenceLevel = 850)
    => ret.value = (criticalValues[8000] + criticalValues[9000]) \div 2

-----------------------------------------------------------------------------
(* The chi-square distribution function *)

RECURSIVE poissonSum(_, _, _, _)
\* 1 + t + t^2/2! + ... + t^(k-1)/(k-1)!, from the term of index i on
poissonSum(t, k, i, term) ==
  IF i >= k THEN 0
  ELSE Add(term, poissonSum(t, k, i + 1, Div(Mul(term, t), Num(i + 1))))

\* the regularized lower incomplete gamma function P(df/2, t): for an even
\* df = 2k it is 1 - e^-t (1 + t + ... + t^(k-1)/(k-1)!), and P(1/2, t) is
\* erf(sqrt(t))
lowerGammaRatio(df, t) ==
  IF df = 1 THEN erf(Sqrt(t))
  ELSE Sub(Scale, Mul(Exp(Neg(t)), poissonSum(t, df \div 2, 0, Scale)))

IsChiSquareCall == call.fn = "chiSquareCDF" /\ ret.status = "ok"

\* C29: for x > 0 and df > 0 each copy of chiSquareCDF returns P(df/2, x/2),
\* the regularized lower incomplete gamma function
C29_LowerGammaRatio ==
  IsChiSquareCall => Near(ret.value, lowerGammaRatio(call.df, call.x \div 2))

\* the copy of utils/goodnessOfFitAnalysis returns 1 - P(df/2, x/2), to within
\* two hundredths, where x/2 is below df/2 + 1 and it sums the series
C29_UpperTailInGof ==
  (/\ IsChiSquareCall
   /\ call.copy = "goodnessOfFitAnalysis"
   /\ call.x \div 2 < call.df * (Scale \div 2) + Scale)
    => Le(Abs(Sub(Add(ret.value, lowerGammaRatio(call.df, call.x \div 2)), Scale)),
          Scale \div 50)

-----------------------------------------------------------------------------
(* The loops of the incomplete gamma functions *)

\* C30: no loop of a series or of a continued fraction of the incomplete
\* gamma functions makes more than 1000 rounds
C30_AtMostMaxIterations ==
  (call.fn \in {"regularizedGammaP", "lowerIncompleteGamma", "gammaLower", "gammaUpper"}
     /\ ret # NoResult)
    => ret.rounds <= 1000

\* a call has returned after the 1000 rounds that the limit lets through
C30_StoppedByTheLimit ==
  /\ call.fn = "lowerIncompleteGamma"
  /\ ret.status = "ok"
  /\ ret.rounds = 1000

\* a call has returned after fewer rounds, its terms having fallen to 0
C30_StoppedByConvergence ==
  /\ call.fn \in {"regularizedGammaP", "gammaLower"}
  /\ ret.status = "ok"
  /\ ret.rounds > 1
  /\ ret.rounds < 100

=============================================================================
